---- MODULE Spec2Model ----
(***************************************************************************)
(* The knowledge-graph memory server of src/index.ts (first revision in    *)
(* the file, lines 1-909): a PouchDB document store `db` holding entity    *)
(* and relation documents, a newline-delimited backup file, and the        *)
(* KnowledgeGraphManager operations that load the whole graph, change it   *)
(* in memory and write it back.                                            *)
(*                                                                         *)
(* Text values (names, types, observations, queries) are sequences of      *)
(* one-character strings, so that toLowerCase and includes are computed.   *)
(*                                                                         *)
(* Specifications:                                                         *)
(*   Spec       the tool calls on a store whose operations succeed, the    *)
(*              backup write succeeding or failing;                        *)
(*   FaultSpec  the tool calls on a store whose operations may fail;       *)
(*   ObsSpec    the observation calls with longer observation lists;       *)
(*   RetrySpec  retryOperation alone, one invocation or wait per step;     *)
(*   ReadSpec   the read calls over longer texts of either case;           *)
(*   ConcSpec   tool calls that overlap, one await per step;               *)
(*   IdSpec     the create calls with every outcome of clock and random;   *)
(*   StepSpec   deleteEntities step by step on a store that may fail;      *)
(*   LifeSpec   the server process from its start to its exit.             *)
(***************************************************************************)
EXTENDS Naturals, Sequences, FiniteSets, TLC

VARIABLES
    db,      \* the live (not delete-marked) documents of the PouchDB store
    backup,  \* the backup file: [exists, lines]
    last,    \* the tool call whose response is pending: operation, arguments, outcome
    pre,     \* the store and the backup file as the pending call found them,
             \* and the store's outcomes for the call's invocations
    clock,   \* per kind of document, how many identifiers have been generated
    faulted, \* how many tool calls have met a store that fails
    retry,   \* a run of retryOperation followed step by step
    tasks,   \* the tool calls followed step by step, in the order they arrived
    revs,    \* per stored _id, the revision of the document, followed where
             \* tool calls overlap
    proc     \* the server process from start to exit: configuration, store
             \* handle, position in main and in cleanup

vars == <<db, backup, last, pre, clock, faulted, retry, tasks, revs, proc>>

----------------------------------------------------------------------------
(* Bounds of the model *)

MaxEntityIds == 2
MaxRelationIds == 2
MaxBatch == 2
MaxObs == 1
MaxContents == 1
MaxFaultyCalls == 1

----------------------------------------------------------------------------
(* The values the tool calls are made with *)

Names == {<<"A">>, <<"a">>}
EntityTypes == {<<"t">>}
ObservationTexts == {<<"X">>}
RelationTypes == {<<"r">>}

SeqsUpTo(S, n) == UNION {[1..k -> S] : k \in 0..n}

EntityCandidates ==
    [name : Names, entityType : EntityTypes,
     observations : SeqsUpTo(ObservationTexts, MaxObs)]

RelationTargets == {<<"a">>}

RelationCandidates == [from : Names, to : RelationTargets, relationType : RelationTypes]

ContentLists == SeqsUpTo(ObservationTexts, MaxContents) \ {<<>>}

ObservationRequests == [entityName : Names, contents : ContentLists]

ObservationDeletions == [entityName : Names, observations : ContentLists]

Queries == {<<>>, <<"a">>, <<"x">>, <<"z">>}

\* Outcomes of fs.writeFile: the file is written, or the write fails after the
\* file was opened for writing, which leaves it truncated.
WriteOutcomes == {"ok", "fail"}

----------------------------------------------------------------------------
(* Array helpers *)

ToSet(s) == {s[i] : i \in DOMAIN s}

Map(s, f(_)) == [i \in DOMAIN s |-> f(s[i])]

Some(s, p(_)) == \E i \in DOMAIN s : p(s[i])

\* String.prototype.toLowerCase on the characters the model uses
LowerChar(c) ==
    CASE c = "A" -> "a"
      [] c = "B" -> "b"
      [] c = "X" -> "x"
      [] c = "Y" -> "y"
      [] c = "T" -> "t"
      [] OTHER -> c

ToLowerCase(str) == [i \in DOMAIN str |-> LowerChar(str[i])]

\* String.prototype.includes
Includes(str, q) ==
    /\ Len(q) <= Len(str)
    /\ \E i \in 1..(Len(str) - Len(q) + 1) : SubSeq(str, i, i + Len(q) - 1) = q

----------------------------------------------------------------------------
(* The document store *)

\* _id strings are `entity_<ms>_<suffix>` and `relation_<ms>_<suffix>`;
\* allDocs returns rows in _id order.
IdLess(a, b) ==
    \/ a[1] = "entity" /\ b[1] = "relation"
    \/ a[1] = b[1] /\ a[2] < b[2]

RECURSIVE SortById(_)
SortById(S) ==
    IF S = {} THEN <<>>
    ELSE LET m == CHOOSE d \in S : \A e \in S : e = d \/ IdLess(d._id, e._id)
         IN  <<m>> \o SortById(S \ {m})

AllDocs(store) == SortById(store)

IsDeleted(doc) == "_deleted" \in DOMAIN doc

MarkDeleted(doc) == [k \in DOMAIN doc \cup {"_deleted"} |->
                        IF k = "_deleted" THEN TRUE ELSE doc[k]]

\* A bulk write after which the store holds the written documents only.
BulkDocsReplacesStore(store, docs) == {d \in ToSet(docs) : ~IsDeleted(d)}

\* db.bulkDocs(docs): the documents are applied in order.  A document read in
\* the same call carries the current _rev, so the store accepts its update or
\* its delete mark; a new document is inserted under its _id.
RECURSIVE BulkDocs(_, _)
BulkDocs(store, docs) ==
    IF docs = <<>> THEN store
    ELSE LET d == Head(docs)
             others == {x \in store : x._id # d._id}
         IN  BulkDocs(IF IsDeleted(d) THEN others ELSE others \cup {d}, Tail(docs))

\* Identifiers produced by Date.now() and Math.random() for the n new
\* documents of one call: the time stamp puts them after every identifier
\* generated earlier, the random suffix orders them among themselves.
FreshIds(kind, ticks, n) ==
    LET new == {<<kind, k>> : k \in (ticks + 1)..(ticks + n)}
    IN  {ids \in [1..n -> new] : \A i, j \in 1..n : i # j => ids[i] # ids[j]}

MaxIds(kind) == IF kind = "entity" THEN MaxEntityIds ELSE MaxRelationIds

Tick(kind, n) ==
    /\ clock[kind] + n <= MaxIds(kind)
    /\ clock' = [clock EXCEPT ![kind] = @ + n]

----------------------------------------------------------------------------
(* retryOperation *)

DefaultMaxRetries == 5
DefaultInitialDelay == 1000
MaxDelay == 10000

\* How one invocation of a store operation ends: it resolves, it rejects with
\* an error whose message includes 'Resource temporarily unavailable', or it
\* rejects with another error.
StoreOutcomes == {"ok", "transient", "other"}

\* 0.75 + Math.random() * 0.5 lies in [0.75, 1.25); in hundredths, the least
\* value, the middle and the greatest.
JitterPercents == {75, 100, 124}

Min(a, b) == IF a < b THEN a ELSE b

NoRetry ==
    [pc |-> "idle", maxRetries |-> 0, i |-> 0, delay |-> 0, lastError |-> "none",
     events |-> <<>>]

\* Entry of retryOperation, up to the loop test of the first iteration.  With
\* no iteration permitted the function throws lastError as it stands.
RetryEnter(maxRetries, initialDelay) ==
    [pc |-> IF 0 < maxRetries THEN "call" ELSE "threw",
     maxRetries |-> maxRetries, i |-> 0, delay |-> initialDelay,
     lastError |-> "none", events |-> <<>>]

\* A catch that waits and retries whatever the error is.
RetryCallRetriesAll(r, o) ==
    LET called == [r EXCEPT !.events =
                      Append(@, [kind |-> "call", outcome |-> o, ms |-> 0])]
    IN  IF o = "ok" THEN [called EXCEPT !.pc = "returned"]
        ELSE [called EXCEPT !.lastError = o, !.pc = "wait"]

\* A loop that does not count its iterations.
RetryWaitUncounted(r, jitter) ==
    [r EXCEPT !.events = Append(@, [kind |-> "wait", outcome |-> "none", ms |-> r.delay]),
              !.delay = (Min(r.delay * 2, MaxDelay) * jitter) \div 100,
              !.pc = "call"]

\* A catch that rethrows the transient error of the last permitted invocation
\* without waiting.
RetryCallThrowsAtLast(r, o) ==
    LET called == [r EXCEPT !.events =
                      Append(@, [kind |-> "call", outcome |-> o, ms |-> 0])]
    IN  IF o = "ok" THEN [called EXCEPT !.pc = "returned"]
        ELSE [called EXCEPT !.lastError = o,
                            !.pc = IF o = "transient" /\ r.i + 1 < r.maxRetries
                                   THEN "wait" ELSE "threw"]

\* try { return await operation() } catch: the operation is invoked and ends
\* with outcome o.  A transient error leads to the wait, any other is rethrown.
RetryCall(r, o) ==
    LET called == [r EXCEPT !.events =
                      Append(@, [kind |-> "call", outcome |-> o, ms |-> 0])]
    IN  IF o = "ok" THEN [called EXCEPT !.pc = "returned"]
        ELSE [called EXCEPT !.lastError = o,
                            !.pc = IF o = "transient" THEN "wait" ELSE "threw"]

\* await this.wait(delay), the new delay, continue: i++ and the loop test.
\* When the test fails the function throws lastError.
RetryWait(r, jitter) ==
    [r EXCEPT !.events = Append(@, [kind |-> "wait", outcome |-> "none", ms |-> r.delay]),
              !.delay = (Min(r.delay * 2, MaxDelay) * jitter) \div 100,
              !.i = r.i + 1,
              !.pc = IF r.i + 1 < r.maxRetries THEN "call" ELSE "threw"]

\* The store's outcomes for the invocations a tool call makes, in the order it
\* makes them; the invocations after the last listed one resolve.
NoFaults == <<>>

NextOutcome(f) == IF f = <<>> THEN "ok" ELSE Head(f)

After(f) == IF f = <<>> THEN f ELSE Tail(f)

\* retryOperation run to its end against the outcomes f.  The jitter changes
\* the length of the waits only.
RECURSIVE RunRetry(_, _)
RunRetry(r, f) ==
    CASE r.pc = "call" -> RunRetry(RetryCall(r, NextOutcome(f)), After(f))
      [] r.pc = "wait" -> RunRetry(RetryWait(r, 100), f)
      [] OTHER -> [ok |-> r.pc = "returned",
                   err |-> IF r.pc = "returned" THEN "none" ELSE r.lastError,
                   rest |-> f]

RetryOperation(f) == RunRetry(RetryEnter(DefaultMaxRetries, DefaultInitialDelay), f)

\* A store operation invoked directly, outside retryOperation.
Invoke(f) ==
    [ok |-> NextOutcome(f) = "ok", err |-> NextOutcome(f), rest |-> After(f)]

----------------------------------------------------------------------------
(* KnowledgeGraphManager *)

\* A loadGraph that hands back what the store holds whatever allDocs did.
LoadGraphKeepsRows(store, f) ==
    LET r == RetryOperation(f)
        rows == AllDocs(store)
    IN  [graph |-> [entities  |-> SelectSeq(rows, LAMBDA d : d.type = "entity"),
                    relations |-> SelectSeq(rows, LAMBDA d : d.type = "relation")],
         rest  |-> r.rest]

\* loadGraph: allDocs under retryOperation; the rows are split by their type
\* field.  When retryOperation throws, the catch returns the empty graph.
\* rest is what is left of f for the invocations that follow.
LoadGraph(store, f) ==
    LET r == RetryOperation(f)
        rows == AllDocs(store)
    IN  [graph |-> IF r.ok
                   THEN [entities  |-> SelectSeq(rows, LAMBDA d : d.type = "entity"),
                         relations |-> SelectSeq(rows, LAMBDA d : d.type = "relation")]
                   ELSE [entities |-> <<>>, relations |-> <<>>],
         rest  |-> r.rest]

\* A saveGraph that undoes the bulk write when the backup write fails.
SaveGraphRollback(store, file, graph, f, w) ==
    LET docs  == graph.entities \o graph.relations
        lines == graph.entities \o graph.relations
        r == RetryOperation(f)
    IN  IF ~r.ok
        THEN [db |-> store, backup |-> file, threw |-> TRUE, err |-> r.err]
        ELSE [db     |-> IF w = "ok" THEN BulkDocs(store, docs) ELSE store,
              backup |-> [exists |-> TRUE, lines |-> IF w = "ok" THEN lines ELSE <<>>],
              threw  |-> w # "ok",
              err    |-> IF w = "ok" THEN "none" ELSE "backup"]

\* A saveGraph that overwrites the backup file first and writes to the store
\* after it.
SaveGraphBackupFirst(store, file, graph, f, w) ==
    LET docs  == graph.entities \o graph.relations
        lines == graph.entities \o graph.relations
        written == [exists |-> TRUE, lines |-> IF w = "ok" THEN lines ELSE <<>>]
        r == RetryOperation(f)
    IN  IF w # "ok"
        THEN [db |-> store, backup |-> written, threw |-> TRUE, err |-> "backup"]
        ELSE IF ~r.ok
        THEN [db |-> store, backup |-> written, threw |-> TRUE, err |-> r.err]
        ELSE [db |-> BulkDocs(store, docs), backup |-> written,
              threw |-> FALSE, err |-> "none"]

\* saveGraph: bulk write to the store under retryOperation, then overwrite the
\* backup file with one line per record, entities first.  When retryOperation
\* throws, the file is not touched.  w is the outcome of fs.writeFile; when it
\* fails the store keeps what bulkDocs wrote.  Either error is rethrown.
SaveGraph(store, file, graph, f, w) ==
    LET docs  == graph.entities \o graph.relations
        lines == graph.entities \o graph.relations
        r == RetryOperation(f)
    IN  IF ~r.ok
        THEN [db |-> store, backup |-> file, threw |-> TRUE, err |-> r.err]
        ELSE [db     |-> BulkDocs(store, docs),
              backup |-> [exists |-> TRUE, lines |-> IF w = "ok" THEN lines ELSE <<>>],
              threw  |-> w # "ok",
              err    |-> IF w = "ok" THEN "none" ELSE "backup"]

\* A cascade test that looks at the source of a relation only.
MentionsFromOnly(r, entityNames) == Some(entityNames, LAMBDA n : n = r.from)

\* deleteEntities, lines 339-341 and 346-348: the relation names a deleted entity
Mentions(r, entityNames) ==
    Some(entityNames, LAMBDA n : n = r.from) \/ Some(entityNames, LAMBDA n : n = r.to)

SameTriple(r, c) ==
    r.from = c.from /\ r.to = c.to /\ r.relationType = c.relationType

\* A createEntities filter that lets every candidate through.
KeptEntitiesUnfiltered(graph, entities) == entities

\* A createEntities filter that compares names without regard to case.
KeptEntitiesCaseFolded(graph, entities) ==
    SelectSeq(entities,
        LAMBDA e : ~Some(graph.entities,
                         LAMBDA existing : ToLowerCase(existing.name) = ToLowerCase(e.name)))

\* createEntities, lines 274-280: the candidates whose name is not in the
\* loaded graph, each with a new _id
KeptEntities(graph, entities) ==
    SelectSeq(entities,
        LAMBDA e : ~Some(graph.entities, LAMBDA existing : existing.name = e.name))

NewEntities(graph, entities, ids) ==
    LET kept == KeptEntities(graph, entities)
    IN  [i \in DOMAIN kept |->
            [_id |-> ids[i], name |-> kept[i].name, entityType |-> kept[i].entityType,
             observations |-> kept[i].observations, type |-> "entity"]]

\* A createRelations filter that also drops a candidate whose from or to names
\* no loaded entity.
KeptRelationsValidated(graph, relations) ==
    SelectSeq(relations,
        LAMBDA r : /\ ~Some(graph.relations, LAMBDA existing : SameTriple(existing, r))
                   /\ Some(graph.entities, LAMBDA e : e.name = r.from)
                   /\ Some(graph.entities, LAMBDA e : e.name = r.to))

\* createRelations, lines 292-303
KeptRelations(graph, relations) ==
    SelectSeq(relations,
        LAMBDA r : ~Some(graph.relations, LAMBDA existing : SameTriple(existing, r)))

NewRelations(graph, relations, ids) ==
    LET kept == KeptRelations(graph, relations)
    IN  [i \in DOMAIN kept |->
            [_id |-> ids[i], from |-> kept[i].from, to |-> kept[i].to,
             relationType |-> kept[i].relationType, type |-> "relation"]]

\* An addObservations that sets the observation list of the entity to the new
\* strings instead of pushing them onto it.
RECURSIVE AddEachReplaces(_, _)
AddEachReplaces(acc, observations) ==
    IF observations = <<>> \/ acc.threw THEN acc
    ELSE LET o == Head(observations)
             idx == {i \in DOMAIN acc.graph.entities :
                        acc.graph.entities[i].name = o.entityName}
         IN  IF idx = {} THEN [acc EXCEPT !.threw = TRUE]
             ELSE LET i == CHOOSE k \in idx : \A j \in idx : k <= j
                      entity == acc.graph.entities[i]
                      newObservations ==
                          SelectSeq(o.contents,
                              LAMBDA content : ~Some(entity.observations,
                                                     LAMBDA x : x = content))
                  IN  AddEachReplaces(
                        [graph   |-> [acc.graph EXCEPT !.entities[i].observations =
                                                         newObservations],
                         results |-> Append(acc.results,
                                        [entityName |-> o.entityName,
                                         addedObservations |-> newObservations]),
                         threw   |-> FALSE],
                        Tail(observations))

\* addObservations, lines 315-325: the requests are mapped in order over the
\* loaded graph, each one pushing onto the entity it finds; the first request
\* whose entity is missing throws.  acc is [graph, results, threw].
RECURSIVE AddEach(_, _)
AddEach(acc, observations) ==
    IF observations = <<>> \/ acc.threw THEN acc
    ELSE LET o == Head(observations)
             idx == {i \in DOMAIN acc.graph.entities :
                        acc.graph.entities[i].name = o.entityName}
         IN  IF idx = {} THEN [acc EXCEPT !.threw = TRUE]
             ELSE LET i == CHOOSE k \in idx : \A j \in idx : k <= j
                      entity == acc.graph.entities[i]
                      newObservations ==
                          SelectSeq(o.contents,
                              LAMBDA content : ~Some(entity.observations,
                                                     LAMBDA x : x = content))
                  IN  AddEach(
                        [graph   |-> [acc.graph EXCEPT !.entities[i].observations =
                                                         @ \o newObservations],
                         results |-> Append(acc.results,
                                        [entityName |-> o.entityName,
                                         addedObservations |-> newObservations]),
                         threw   |-> FALSE],
                        Tail(observations))

\* deleteObservations, lines 358-365
RECURSIVE DeleteEach(_, _)
DeleteEach(graph, deletions) ==
    IF deletions = <<>> THEN graph
    ELSE LET d == Head(deletions)
             idx == {i \in DOMAIN graph.entities : graph.entities[i].name = d.entityName}
         IN  IF idx = {} THEN DeleteEach(graph, Tail(deletions))
             ELSE LET i == CHOOSE k \in idx : \A j \in idx : k <= j
                  IN  DeleteEach(
                        [graph EXCEPT !.entities[i].observations =
                            SelectSeq(@, LAMBDA o : ~Some(d.observations, LAMBDA x : x = o))],
                        Tail(deletions))

\* A projection that keeps a relation when either endpoint is returned.
FilteredGraphEitherEnd(graph, filteredEntities) ==
    LET filteredEntityNames == {filteredEntities[i].name : i \in DOMAIN filteredEntities}
    IN  [entities  |-> filteredEntities,
         relations |-> SelectSeq(graph.relations,
                          LAMBDA r : r.from \in filteredEntityNames
                                     \/ r.to \in filteredEntityNames)]

\* the relations whose two endpoints are among the filtered entities
FilteredGraph(graph, filteredEntities) ==
    LET filteredEntityNames == {filteredEntities[i].name : i \in DOMAIN filteredEntities}
    IN  [entities  |-> filteredEntities,
         relations |-> SelectSeq(graph.relations,
                          LAMBDA r : r.from \in filteredEntityNames
                                     /\ r.to \in filteredEntityNames)]

\* A search that lower-cases the stored texts but not the query.
SearchResultQueryAsTyped(graph, query) ==
    FilteredGraph(graph,
        SelectSeq(graph.entities,
            LAMBDA e : \/ Includes(ToLowerCase(e.name), query)
                       \/ Includes(ToLowerCase(e.entityType), query)
                       \/ Some(e.observations,
                               LAMBDA o : Includes(ToLowerCase(o), query))))

SearchResult(graph, query) ==
    FilteredGraph(graph,
        SelectSeq(graph.entities,
            LAMBDA e : \/ Includes(ToLowerCase(e.name), ToLowerCase(query))
                       \/ Includes(ToLowerCase(e.entityType), ToLowerCase(query))
                       \/ Some(e.observations,
                               LAMBDA o : Includes(ToLowerCase(o), ToLowerCase(query)))))

\* An openNodes that compares names without regard to case.
OpenResultCaseFolded(graph, names) ==
    FilteredGraph(graph,
        SelectSeq(graph.entities,
            LAMBDA e : Some(names, LAMBDA n : ToLowerCase(n) = ToLowerCase(e.name))))

OpenResult(graph, names) ==
    FilteredGraph(graph,
        SelectSeq(graph.entities, LAMBDA e : Some(names, LAMBDA n : n = e.name)))

----------------------------------------------------------------------------
(* The tool calls.  A call runs when no response is pending, or repeats the   *)
(* call whose response is pending; Respond hands the pending response over.   *)

NoCall == [op |-> "none", args |-> <<>>, ok |-> TRUE, err |-> "none", result |-> <<>>]

MayCall(op, args) == last = NoCall \/ (last.op = op /\ last.args = args)

Returned(op, args, result) ==
    [op |-> op, args |-> args, ok |-> TRUE, err |-> "none", result |-> result]

Threw(op, args, err) ==
    [op |-> op, args |-> args, ok |-> FALSE, err |-> err, result |-> <<>>]

Outcome(op, args, s, result) ==
    IF s.threw THEN Threw(op, args, s.err) ELSE Returned(op, args, result)

NoPre == [db |-> {}, backup |-> [exists |-> FALSE, lines |-> <<>>], faults |-> NoFaults]

\* what the call found: the store, the backup file, and the outcomes f the
\* store has for the call's invocations
Found(f) == [db |-> db, backup |-> backup, faults |-> f]

\* a store write that threw: the call ends with the store and the file as given
Failed(store, file, err) == [db |-> store, backup |-> file, threw |-> TRUE, err |-> err]

\* the store fails during at most MaxFaultyCalls tool calls
Meet(f) ==
    /\ f # NoFaults => faulted < MaxFaultyCalls
    /\ faulted' = IF f = NoFaults THEN faulted ELSE faulted + 1
    /\ pre' = Found(f)
    /\ UNCHANGED <<retry, tasks, revs, proc>>

Persist(s, f) ==
    /\ db' = s.db
    /\ backup' = s.backup
    /\ Meet(f)

ReadOnly(f) ==
    /\ Meet(f)
    /\ UNCHANGED <<db, backup, clock>>

\* A createEntities that persists only when it has something new.
CreateEntitiesSkipsEmptySave(entities, f, w) ==
    LET ld == LoadGraph(db, f)
        graph == ld.graph
    IN  /\ MayCall("createEntities", entities)
        /\ \E ids \in FreshIds("entity", clock.entity, Len(KeptEntities(graph, entities))) :
            LET newEntities == NewEntities(graph, entities, ids)
                s == IF newEntities = <<>>
                     THEN [db |-> db, backup |-> backup, threw |-> FALSE, err |-> "none"]
                     ELSE SaveGraph(db, backup,
                                    [graph EXCEPT !.entities = @ \o newEntities],
                                    ld.rest, w)
            IN  /\ Tick("entity", Len(newEntities))
                /\ Persist(s, f)
                /\ last' = Outcome("createEntities", entities, s, newEntities)

CreateEntities(entities, f, w) ==
    LET ld == LoadGraph(db, f)
        graph == ld.graph
    IN  /\ MayCall("createEntities", entities)
        /\ \E ids \in FreshIds("entity", clock.entity, Len(KeptEntities(graph, entities))) :
            LET newEntities == NewEntities(graph, entities, ids)
                s == SaveGraph(db, backup,
                               [graph EXCEPT !.entities = @ \o newEntities], ld.rest, w)
            IN  /\ Tick("entity", Len(newEntities))
                /\ Persist(s, f)
                /\ last' = Outcome("createEntities", entities, s, newEntities)

CreateRelations(relations, f, w) ==
    LET ld == LoadGraph(db, f)
        graph == ld.graph
    IN  /\ MayCall("createRelations", relations)
        /\ \E ids \in FreshIds("relation", clock.relation,
                               Len(KeptRelations(graph, relations))) :
            LET newRelations == NewRelations(graph, relations, ids)
                s == SaveGraph(db, backup,
                               [graph EXCEPT !.relations = @ \o newRelations], ld.rest, w)
            IN  /\ Tick("relation", Len(newRelations))
                /\ Persist(s, f)
                /\ last' = Outcome("createRelations", relations, s, newRelations)

\* An addObservations that saves what it has applied before reporting the
\* missing entity.
AddObservationsSavesPartial(observations, f, w) ==
    LET ld == LoadGraph(db, f)
        acc == AddEach([graph |-> ld.graph, results |-> <<>>, threw |-> FALSE],
                       observations)
        s == SaveGraph(db, backup, acc.graph, ld.rest, w)
    IN  /\ MayCall("addObservations", observations)
        /\ Persist(s, f)
        /\ last' = IF acc.threw THEN Threw("addObservations", observations, "notfound")
                   ELSE Outcome("addObservations", observations, s, acc.results)
        /\ UNCHANGED clock

AddObservations(observations, f, w) ==
    LET ld == LoadGraph(db, f)
        acc == AddEach([graph |-> ld.graph, results |-> <<>>, threw |-> FALSE],
                       observations)
    IN  /\ MayCall("addObservations", observations)
        /\ IF acc.threw
           THEN /\ w = "ok"
                /\ last' = Threw("addObservations", observations, "notfound")
                /\ Meet(f)
                /\ UNCHANGED <<db, backup>>
           ELSE LET s == SaveGraph(db, backup, acc.graph, ld.rest, w)
                IN  /\ Persist(s, f)
                    /\ last' = Outcome("addObservations", observations, s, acc.results)
        /\ UNCHANGED clock

\* The two delete-marking bulkDocs are invoked directly; when one throws, the
\* call ends there with what the store has taken so far.
DeleteEntities(entityNames, f, w) ==
    LET ld == LoadGraph(db, f)
        graph == ld.graph
        entitiesToDelete ==
            SelectSeq(graph.entities, LAMBDA e : Some(entityNames, LAMBDA n : n = e.name))
        w1 == Invoke(ld.rest)
        db1 == BulkDocs(db, Map(entitiesToDelete, MarkDeleted))
        relationsToDelete ==
            SelectSeq(graph.relations, LAMBDA r : Mentions(r, entityNames))
        w2 == Invoke(w1.rest)
        db2 == BulkDocs(db1, Map(relationsToDelete, MarkDeleted))
        graph2 ==
            [entities  |-> SelectSeq(graph.entities,
                              LAMBDA e : ~Some(entityNames, LAMBDA n : n = e.name)),
             relations |-> SelectSeq(graph.relations,
                              LAMBDA r : ~Mentions(r, entityNames))]
        s == IF ~w1.ok THEN Failed(db, backup, w1.err)
             ELSE IF ~w2.ok THEN Failed(db1, backup, w2.err)
             ELSE SaveGraph(db2, backup, graph2, w2.rest, w)
    IN  /\ MayCall("deleteEntities", entityNames)
        /\ Persist(s, f)
        /\ last' = Outcome("deleteEntities", entityNames, s, <<>>)
        /\ UNCHANGED clock

\* A deleteObservations that rejects a request naming no loaded entity.
DeleteObservationsStrict(deletions, f, w) ==
    LET ld == LoadGraph(db, f)
        s == SaveGraph(db, backup, DeleteEach(ld.graph, deletions), ld.rest, w)
        missing == \E i \in DOMAIN deletions :
                      ~Some(ld.graph.entities, LAMBDA e : e.name = deletions[i].entityName)
    IN  /\ MayCall("deleteObservations", deletions)
        /\ IF missing
           THEN /\ w = "ok"
                /\ last' = Threw("deleteObservations", deletions, "notfound")
                /\ Meet(f)
                /\ UNCHANGED <<db, backup>>
           ELSE /\ Persist(s, f)
                /\ last' = Outcome("deleteObservations", deletions, s, <<>>)
        /\ UNCHANGED clock

DeleteObservations(deletions, f, w) ==
    LET ld == LoadGraph(db, f)
        s == SaveGraph(db, backup, DeleteEach(ld.graph, deletions), ld.rest, w)
    IN  /\ MayCall("deleteObservations", deletions)
        /\ Persist(s, f)
        /\ last' = Outcome("deleteObservations", deletions, s, <<>>)
        /\ UNCHANGED clock

\* A deleteRelations that leaves the delete marks to saveGraph.
DeleteRelationsUnmarked(relations, f, w) ==
    LET ld == LoadGraph(db, f)
        graph == ld.graph
        w1 == Invoke(ld.rest)
        graph2 ==
            [graph EXCEPT !.relations =
                SelectSeq(@, LAMBDA r : ~Some(relations,
                                              LAMBDA delRelation : SameTriple(r, delRelation)))]
        s == IF ~w1.ok THEN Failed(db, backup, w1.err)
             ELSE SaveGraph(db, backup, graph2, w1.rest, w)
    IN  /\ MayCall("deleteRelations", relations)
        /\ Persist(s, f)
        /\ last' = Outcome("deleteRelations", relations, s, <<>>)
        /\ UNCHANGED clock

\* The delete-marking bulkDocs is invoked directly.
DeleteRelations(relations, f, w) ==
    LET ld == LoadGraph(db, f)
        graph == ld.graph
        relationsToDelete ==
            SelectSeq(graph.relations,
                LAMBDA r : Some(relations, LAMBDA delRelation : SameTriple(r, delRelation)))
        w1 == Invoke(ld.rest)
        db1 == BulkDocs(db, Map(relationsToDelete, MarkDeleted))
        graph2 ==
            [graph EXCEPT !.relations =
                SelectSeq(@, LAMBDA r : ~Some(relations,
                                              LAMBDA delRelation : SameTriple(r, delRelation)))]
        s == IF ~w1.ok THEN Failed(db, backup, w1.err)
             ELSE SaveGraph(db1, backup, graph2, w1.rest, w)
    IN  /\ MayCall("deleteRelations", relations)
        /\ Persist(s, f)
        /\ last' = Outcome("deleteRelations", relations, s, <<>>)
        /\ UNCHANGED clock

\* A readGraph that answers from the lines of the backup file.
ReadGraphFromBackup(f) ==
    /\ MayCall("readGraph", <<>>)
    /\ last' = Returned("readGraph", <<>>,
                  [entities  |-> SelectSeq(backup.lines, LAMBDA d : d.type = "entity"),
                   relations |-> SelectSeq(backup.lines, LAMBDA d : d.type = "relation")])
    /\ ReadOnly(f)

ReadGraph(f) ==
    /\ MayCall("readGraph", <<>>)
    /\ last' = Returned("readGraph", <<>>, LoadGraph(db, f).graph)
    /\ ReadOnly(f)

SearchNodes(query, f) ==
    /\ MayCall("searchNodes", query)
    /\ last' = Returned("searchNodes", query, SearchResult(LoadGraph(db, f).graph, query))
    /\ ReadOnly(f)

OpenNodes(names, f) ==
    /\ MayCall("openNodes", names)
    /\ last' = Returned("openNodes", names, OpenResult(LoadGraph(db, f).graph, names))
    /\ ReadOnly(f)

\* the CallToolRequest handler returns the pending result or error to the client
Respond ==
    /\ last # NoCall
    /\ last' = NoCall
    /\ pre' = NoPre
    /\ UNCHANGED <<db, backup, clock, faulted, retry, tasks, revs, proc>>

----------------------------------------------------------------------------

\* no LOCK file in the store directory
NoLockFile == [exists |-> FALSE, age |-> 0]

\* a pass of initializeDatabase that has not come to the lock file check
NoLockCheck ==
    [checked |-> FALSE, before |-> NoLockFile, stat |-> "none", unlink |-> "none",
     after |-> NoLockFile, threw |-> FALSE]

\* the process before the module body has run
NoProcess ==
    [pc |-> "start", memoryPath |-> FALSE, storePath |-> FALSE, handle |-> "none",
     i |-> 0, delay |-> 0, served |-> 0, code |-> 0, via |-> "none", events |-> <<>>,
     lock |-> NoLockCheck, dropped |-> 0]

Init ==
    /\ db = {}
    /\ backup = [exists |-> FALSE, lines |-> <<>>]
    /\ last = NoCall
    /\ pre = NoPre
    /\ clock = [entity |-> 0, relation |-> 0]
    /\ faulted = 0
    /\ retry = NoRetry
    /\ tasks = <<>>
    /\ revs = <<>>
    /\ proc = NoProcess

Next ==
    \/ \E entities \in SeqsUpTo(EntityCandidates, MaxBatch), w \in WriteOutcomes :
          CreateEntities(entities, NoFaults, w)
    \/ \E relations \in SeqsUpTo(RelationCandidates, MaxBatch), w \in WriteOutcomes :
          CreateRelations(relations, NoFaults, w)
    \/ \E observations \in SeqsUpTo(ObservationRequests, MaxBatch), w \in WriteOutcomes :
          AddObservations(observations, NoFaults, w)
    \/ \E entityNames \in SeqsUpTo(Names, MaxBatch), w \in WriteOutcomes :
          DeleteEntities(entityNames, NoFaults, w)
    \/ \E deletions \in SeqsUpTo(ObservationDeletions, MaxBatch), w \in WriteOutcomes :
          DeleteObservations(deletions, NoFaults, w)
    \/ \E relations \in SeqsUpTo(RelationCandidates, MaxBatch), w \in WriteOutcomes :
          DeleteRelations(relations, NoFaults, w)
    \/ ReadGraph(NoFaults)
    \/ \E query \in Queries : SearchNodes(query, NoFaults)
    \/ \E names \in SeqsUpTo(Names, MaxBatch) : OpenNodes(names, NoFaults)
    \/ Respond

Spec == Init /\ [][Next]_vars

----------------------------------------------------------------------------
(* The tool calls against a store whose operations may fail: a call meets a   *)
(* run of successful invocations followed by one transient error, one other   *)
(* error, or the transient error for as long as retryOperation retries.  The  *)
(* backup file is written without error here.                                 *)

MaxFaultBatch == 1

Oks(k) == [i \in 1..k |-> "ok"]

Failures ==
    {<<"transient">>, <<"other">>, [i \in 1..DefaultMaxRetries |-> "transient"]}

\* the outcomes a call with n store operations can tell apart: no failure, or
\* a failure at one of the operations
FaultSchedules(n) ==
    {NoFaults} \cup {Oks(k) \o x : k \in 0..(n - 1), x \in Failures}

FaultNext ==
    \/ \E entities \in SeqsUpTo(EntityCandidates, MaxFaultBatch),
          f \in FaultSchedules(2) :
          CreateEntities(entities, f, "ok")
    \/ \E relations \in SeqsUpTo(RelationCandidates, MaxFaultBatch),
          f \in FaultSchedules(2) :
          CreateRelations(relations, f, "ok")
    \/ \E observations \in SeqsUpTo(ObservationRequests, MaxFaultBatch),
          f \in FaultSchedules(2) :
          AddObservations(observations, f, "ok")
    \/ \E entityNames \in SeqsUpTo(Names, MaxFaultBatch), f \in FaultSchedules(4) :
          DeleteEntities(entityNames, f, "ok")
    \/ \E deletions \in SeqsUpTo(ObservationDeletions, MaxFaultBatch),
          f \in FaultSchedules(2) :
          DeleteObservations(deletions, f, "ok")
    \/ \E relations \in SeqsUpTo(RelationCandidates, MaxFaultBatch),
          f \in FaultSchedules(3) :
          DeleteRelations(relations, f, "ok")
    \/ \E f \in FaultSchedules(1) : ReadGraph(f)
    \/ \E query \in Queries, f \in FaultSchedules(1) : SearchNodes(query, f)
    \/ \E names \in SeqsUpTo(Names, MaxFaultBatch), f \in FaultSchedules(1) :
          OpenNodes(names, f)
    \/ Respond

FaultSpec == Init /\ [][FaultNext]_vars

----------------------------------------------------------------------------
(* The observation calls on one entity, with observation and contents lists   *)
(* of two texts that may repeat a text.                                       *)

MaxLongObs == 2

LongTexts == {<<"X">>, <<"Y">>}

LongLists == SeqsUpTo(LongTexts, MaxLongObs)

LongCandidates ==
    [name : {<<"A">>}, entityType : EntityTypes, observations : LongLists]

LongRequests == [entityName : {<<"A">>}, contents : LongLists \ {<<>>}]

LongDeletions == [entityName : {<<"A">>}, observations : LongLists \ {<<>>}]

ObsNext ==
    \/ \E c \in LongCandidates : CreateEntities(<<c>>, NoFaults, "ok")
    \/ \E observations \in SeqsUpTo(LongRequests, MaxBatch) :
          AddObservations(observations, NoFaults, "ok")
    \/ \E deletions \in SeqsUpTo(LongDeletions, MaxBatch) :
          DeleteObservations(deletions, NoFaults, "ok")
    \/ ReadGraph(NoFaults)
    \/ Respond

ObsSpec == Init /\ [][ObsNext]_vars

----------------------------------------------------------------------------
(* retryOperation on its own, one step at a time, for every outcome of the    *)
(* operation it is given and every jitter.                                    *)

RetryLimits == 1..DefaultMaxRetries

RetryDone == {"returned", "threw"}

\* a caller enters retryOperation
RetryStart(maxRetries) ==
    /\ retry.pc \in RetryDone \cup {"idle"}
    /\ retry' = RetryEnter(maxRetries, DefaultInitialDelay)
    /\ UNCHANGED <<db, backup, last, pre, clock, faulted, tasks, revs, proc>>

\* the awaited operation settles
RetryAttempt(o) ==
    /\ retry.pc = "call"
    /\ retry' = RetryCall(retry, o)
    /\ UNCHANGED <<db, backup, last, pre, clock, faulted, tasks, revs, proc>>

\* the timer of wait(delay) fires
RetryBackoff(jitter) ==
    /\ retry.pc = "wait"
    /\ retry' = RetryWait(retry, jitter)
    /\ UNCHANGED <<db, backup, last, pre, clock, faulted, tasks, revs, proc>>

RetryRun ==
    \/ \E o \in StoreOutcomes : RetryAttempt(o)
    \/ \E jitter \in JitterPercents : RetryBackoff(jitter)

RetryNext ==
    \/ \E maxRetries \in RetryLimits : RetryStart(maxRetries)
    \/ \E o \in StoreOutcomes : RetryAttempt(o)
    \/ \E jitter \in JitterPercents : RetryBackoff(jitter)

\* The awaited operation settles and the timer fires.
RetrySpec == Init /\ [][RetryNext]_vars /\ WF_vars(RetryRun)

----------------------------------------------------------------------------
(* The read calls over names, types and observations of more than one         *)
(* character and of either case, with queries of either case.  Relations      *)
(* may point at a name that is not stored.                                    *)

ReadNames == {<<"A", "b">>, <<"a">>, <<"B">>}

ReadCandidates ==
    [name : ReadNames, entityType : {<<"t">>},
     observations : {<<>>, << <<"X", "y">> >>}]

ReadRelations == [from : ReadNames, to : {<<"a">>}, relationType : RelationTypes]

ReadQueries ==
    {<<>>, <<"b">>, <<"a", "B">>, <<"B", "a">>, <<"Y">>, <<"x", "y">>, <<"T">>}

ReadNext ==
    \/ \E entities \in SeqsUpTo(ReadCandidates, MaxBatch) :
          CreateEntities(entities, NoFaults, "ok")
    \/ \E r \in ReadRelations : CreateRelations(<<r>>, NoFaults, "ok")
    \/ \E n \in ReadNames : DeleteEntities(<<n>>, NoFaults, "ok")
    \/ ReadGraph(NoFaults)
    \/ \E query \in ReadQueries : SearchNodes(query, NoFaults)
    \/ \E names \in SeqsUpTo(ReadNames, MaxBatch) : OpenNodes(names, NoFaults)
    \/ Respond

ReadSpec == Init /\ [][ReadNext]_vars

----------------------------------------------------------------------------
(* Tool calls that overlap.  The request handler is an async function and     *)
(* nothing orders two invocations of it: a call gives way at each await, to   *)
(* allDocs in loadGraph and to bulkDocs and writeFile in saveGraph, and the   *)
(* steps of another call may run there.  The store's operations and the       *)
(* backup write succeed here.                                                 *)

MaxRequests == 3

\* db.bulkDocs(docs) with the store's revision check.  read holds the _rev of
\* the documents the call loaded, now the current ones.  A document that
\* carries a _rev is taken when that is still the current revision of a live
\* document; a document without one is taken when no live document has its
\* _id.  Any other document is answered with a conflict in the result array,
\* which bulkDocs returns without throwing.
RECURSIVE BulkDocsChecked(_, _, _, _)
BulkDocsChecked(store, now, docs, read) ==
    IF docs = <<>> THEN [db |-> store, revs |-> now, conflicts |-> <<>>]
    ELSE LET d == Head(docs)
             id == d._id
             taken == IF id \in DOMAIN read
                      THEN id \in DOMAIN now /\ now[id] = read[id]
                      ELSE id \notin DOMAIN now
             others == {x \in store : x._id # id}
             rest == IF ~taken THEN BulkDocsChecked(store, now, Tail(docs), read)
                     ELSE IF IsDeleted(d)
                     THEN BulkDocsChecked(others,
                              [i \in DOMAIN now \ {id} |-> now[i]], Tail(docs), read)
                     ELSE BulkDocsChecked(others \cup {d},
                              [i \in DOMAIN now \cup {id} |->
                                  IF i = id THEN (IF id \in DOMAIN now THEN now[id] + 1 ELSE 1)
                                  ELSE now[i]],
                              Tail(docs), read)
         IN  IF taken THEN rest
             ELSE [rest EXCEPT !.conflicts = <<d>> \o @]

NoGraph == [entities |-> <<>>, relations |-> <<>>]

\* the handler is invoked for a request: the call is at its allDocs
Receive(op, args) ==
    /\ Len(tasks) < MaxRequests
    /\ tasks' = Append(tasks,
                    [op |-> op, args |-> args, pc |-> "load", graph |-> NoGraph,
                     read |-> <<>>, result |-> <<>>, err |-> "none",
                     conflicts |-> <<>>, store |-> {}])
    /\ UNCHANGED <<db, backup, last, pre, clock, faulted, retry, revs, proc>>

At(t, op, pc) == t \in DOMAIN tasks /\ tasks[t].op = op /\ tasks[t].pc = pc

\* allDocs has answered: the call holds the graph and the revisions it read,
\* applies its change to that graph and is at the bulkDocs of saveGraph
Loaded(t, graph, result) ==
    /\ tasks' = [tasks EXCEPT ![t].pc = "save", ![t].graph = graph,
                              ![t].read = revs, ![t].result = result]
    /\ UNCHANGED <<db, backup, last, pre, faulted, retry, revs, proc>>

LoadedCreateEntities(t, ids) ==
    /\ At(t, "createEntities", "load")
    /\ LET graph == LoadGraph(db, NoFaults).graph
           newEntities == NewEntities(graph, tasks[t].args, ids)
       IN  /\ Len(ids) = Len(KeptEntities(graph, tasks[t].args))
           /\ Tick("entity", Len(newEntities))
           /\ Loaded(t, [graph EXCEPT !.entities = @ \o newEntities], newEntities)

LoadedCreateRelations(t, ids) ==
    /\ At(t, "createRelations", "load")
    /\ LET graph == LoadGraph(db, NoFaults).graph
           newRelations == NewRelations(graph, tasks[t].args, ids)
       IN  /\ Len(ids) = Len(KeptRelations(graph, tasks[t].args))
           /\ Tick("relation", Len(newRelations))
           /\ Loaded(t, [graph EXCEPT !.relations = @ \o newRelations], newRelations)

LoadedAddObservations(t) ==
    /\ At(t, "addObservations", "load")
    /\ LET acc == AddEach([graph |-> LoadGraph(db, NoFaults).graph,
                           results |-> <<>>, threw |-> FALSE], tasks[t].args)
       IN  IF acc.threw
           THEN /\ tasks' = [tasks EXCEPT ![t].pc = "done", ![t].err = "notfound",
                                          ![t].store = db]
                /\ UNCHANGED <<db, backup, last, pre, faulted, retry, revs, proc>>
           ELSE Loaded(t, acc.graph, acc.results)
    /\ UNCHANGED clock

\* A saveGraph that does not wait for the backup write: the call returns as
\* soon as bulkDocs has answered.
BulkWrittenNotAwaited(t) ==
    /\ t \in DOMAIN tasks /\ tasks[t].pc = "save"
    /\ LET s == BulkDocsChecked(db, revs,
                    tasks[t].graph.entities \o tasks[t].graph.relations, tasks[t].read)
       IN  /\ db' = s.db
           /\ revs' = s.revs
           /\ tasks' = [tasks EXCEPT ![t].pc = "done", ![t].conflicts = s.conflicts,
                                     ![t].store = s.db]
    /\ UNCHANGED <<backup, last, pre, clock, faulted, retry, proc>>

\* bulkDocs of saveGraph has answered; its result array is not looked at
\* (line 255), and the call is at the writeFile
BulkWritten(t) ==
    /\ t \in DOMAIN tasks /\ tasks[t].pc = "save"
    /\ LET s == BulkDocsChecked(db, revs,
                    tasks[t].graph.entities \o tasks[t].graph.relations, tasks[t].read)
       IN  /\ db' = s.db
           /\ revs' = s.revs
           /\ tasks' = [tasks EXCEPT ![t].pc = "backup", ![t].conflicts = s.conflicts]
    /\ UNCHANGED <<backup, last, pre, clock, faulted, retry, proc>>

\* writeFile has answered and the call returns its result; store is the
\* primary store as it is then
BackupWritten(t) ==
    /\ t \in DOMAIN tasks /\ tasks[t].pc = "backup"
    /\ backup' = [exists |-> TRUE,
                  lines  |-> tasks[t].graph.entities \o tasks[t].graph.relations]
    /\ tasks' = [tasks EXCEPT ![t].pc = "done", ![t].store = db]
    /\ UNCHANGED <<db, last, pre, clock, faulted, retry, revs, proc>>

ConcEntities ==
    {<<[name |-> n, entityType |-> <<"t">>, observations |-> <<>>]>> : n \in Names}

ConcRelations == {<<[from |-> <<"A">>, to |-> <<"a">>, relationType |-> <<"r">>]>>}

ConcObservations == {<<[entityName |-> <<"A">>, contents |-> << <<"X">> >>]>>}

Slots == 1..MaxRequests

ConcNext ==
    \/ \E entities \in ConcEntities : Receive("createEntities", entities)
    \/ \E relations \in ConcRelations : Receive("createRelations", relations)
    \/ \E observations \in ConcObservations : Receive("addObservations", observations)
    \/ \E t \in Slots, n \in 0..1 : \E ids \in FreshIds("entity", clock.entity, n) :
          LoadedCreateEntities(t, ids)
    \/ \E t \in Slots, n \in 0..1 : \E ids \in FreshIds("relation", clock.relation, n) :
          LoadedCreateRelations(t, ids)
    \/ \E t \in Slots : LoadedAddObservations(t)
    \/ \E t \in Slots : BulkWritten(t)
    \/ \E t \in Slots : BackupWritten(t)

ConcSpec == Init /\ [][ConcNext]_vars

----------------------------------------------------------------------------
(* The create calls, one at a time, with every outcome of Date.now() and      *)
(* Math.random(): an identifier is the text made of the two, and nothing      *)
(* compares it with the identifiers of the batch or of the store.             *)

ClockReadings == {1, 2}

RandomSuffixes == {0, 1}

\* `<kind>_<ms>_<suffix>`, numbered in the order of the strings
IdOf(kind, ms, suffix) == <<kind, (ms - 1) * Cardinality(RandomSuffixes) + suffix + 1>>

AnyIds(kind) == {IdOf(kind, ms, suffix) : ms \in ClockReadings, suffix \in RandomSuffixes}

\* every call so far has returned
Quiet == \A t \in DOMAIN tasks : tasks[t].pc = "done"

\* the client sends a request when the one before it has been answered
IdNext ==
    \/ \E batch \in SeqsUpTo({<<"A">>, <<"a">>}, MaxBatch) :
          /\ Quiet
          /\ Receive("createEntities",
                [i \in DOMAIN batch |->
                    [name |-> batch[i], entityType |-> <<"t">>, observations |-> <<>>]])
    \/ \E relations \in ConcRelations : Quiet /\ Receive("createRelations", relations)
    \/ \E t \in Slots : \E ids \in SeqsUpTo(AnyIds("entity"), MaxBatch) :
          LoadedCreateEntities(t, ids)
    \/ \E t \in Slots : \E ids \in SeqsUpTo(AnyIds("relation"), MaxBatch) :
          LoadedCreateRelations(t, ids)
    \/ \E t \in Slots : BulkWritten(t)
    \/ \E t \in Slots : BackupWritten(t)

IdSpec == Init /\ [][IdNext]_vars

----------------------------------------------------------------------------
(* deleteEntities step by step, one call at a time, against a store whose     *)
(* operations may fail: the load, the delete-marking write of the entities,   *)
(* the delete-marking write of the relations, then saveGraph.                 *)

\* lines 335-336 and 339-342: the delete marks of the loaded entities with a
\* targeted name, and of the loaded relations that mention one
MarksOfEntities(graph, entityNames) ==
    Map(SelectSeq(graph.entities, LAMBDA e : Some(entityNames, LAMBDA n : n = e.name)),
        MarkDeleted)

MarksOfRelations(graph, entityNames) ==
    Map(SelectSeq(graph.relations, LAMBDA r : Mentions(r, entityNames)), MarkDeleted)

\* line 332: loadGraph has returned, with the empty graph when allDocs failed
\* for good; pre is what the call found
LoadedDeleteEntities(t, f) ==
    /\ At(t, "deleteEntities", "load")
    /\ tasks' = [tasks EXCEPT ![t].pc = "markEntities",
                              ![t].graph = LoadGraph(db, f).graph,
                              ![t].read = revs]
    /\ pre' = Found(f)
    /\ UNCHANGED <<db, backup, last, clock, faulted, retry, revs, proc>>

\* a store write of the call has rejected: the call throws where it is
Rejected(t, err) ==
    /\ tasks' = [tasks EXCEPT ![t].pc = "done", ![t].err = err, ![t].store = db]
    /\ UNCHANGED <<db, backup, last, pre, clock, faulted, retry, revs, proc>>

\* a store write of the call has resolved
Marked(t, docs, pc, graph) ==
    LET s == BulkDocsChecked(db, revs, docs, tasks[t].read)
    IN  /\ db' = s.db
        /\ revs' = s.revs
        /\ tasks' = [tasks EXCEPT ![t].pc = pc, ![t].graph = graph]
        /\ UNCHANGED <<backup, last, pre, clock, faulted, retry, proc>>

\* A deleteEntities whose first write marks the relations.
EntitiesMarkedRelationsFirst(t, o) ==
    /\ At(t, "deleteEntities", "markEntities")
    /\ IF o = "ok"
       THEN Marked(t, MarksOfRelations(tasks[t].graph, tasks[t].args),
                   "markRelations", tasks[t].graph)
       ELSE Rejected(t, o)

\* line 336: the bulkDocs with the delete marks of the entities has settled;
\* it is invoked directly, so either error ends the call
EntitiesMarked(t, o) ==
    /\ At(t, "deleteEntities", "markEntities")
    /\ IF o = "ok"
       THEN Marked(t, MarksOfEntities(tasks[t].graph, tasks[t].args),
                   "markRelations", tasks[t].graph)
       ELSE Rejected(t, o)

\* lines 342-350: the bulkDocs with the delete marks of the relations has
\* settled; the graph in memory is filtered and the call is at saveGraph
RelationsMarked(t, o) ==
    /\ At(t, "deleteEntities", "markRelations")
    /\ LET graph == tasks[t].graph
           entityNames == tasks[t].args
       IN  IF o = "ok"
           THEN Marked(t, MarksOfRelations(graph, entityNames), "save",
                    [entities  |-> SelectSeq(graph.entities,
                                      LAMBDA e : ~Some(entityNames, LAMBDA n : n = e.name)),
                     relations |-> SelectSeq(graph.relations,
                                      LAMBDA r : ~Mentions(r, entityNames))])
           ELSE Rejected(t, o)

\* lines 255 and 263-266: retryOperation(bulkDocs) of saveGraph has thrown
BulkRejected(t, f) ==
    /\ t \in DOMAIN tasks /\ tasks[t].pc = "save"
    /\ ~RetryOperation(f).ok
    /\ Rejected(t, RetryOperation(f).err)

\* the names of the createEntities batches and the targets of deleteEntities
StepBatches == {<< <<"A">> >>, << <<"A">>, <<"a">> >>}

StepTargets == {<< <<"A">> >>, << <<"a">> >>, << <<"a">>, <<"A">> >>}

StepNext ==
    \/ \E batch \in StepBatches :
          /\ Quiet
          /\ Receive("createEntities",
                [i \in DOMAIN batch |->
                    [name |-> batch[i], entityType |-> <<"t">>, observations |-> <<>>]])
    \/ \E relations \in ConcRelations : Quiet /\ Receive("createRelations", relations)
    \/ \E entityNames \in StepTargets :
          Quiet /\ Receive("deleteEntities", entityNames)
    \/ \E t \in Slots, n \in 0..MaxBatch : \E ids \in FreshIds("entity", clock.entity, n) :
          LoadedCreateEntities(t, ids)
    \/ \E t \in Slots, n \in 0..1 : \E ids \in FreshIds("relation", clock.relation, n) :
          LoadedCreateRelations(t, ids)
    \/ \E t \in Slots, f \in {NoFaults} \cup Failures : LoadedDeleteEntities(t, f)
    \/ \E t \in Slots, o \in StoreOutcomes : EntitiesMarked(t, o)
    \/ \E t \in Slots, o \in StoreOutcomes : RelationsMarked(t, o)
    \/ \E t \in Slots : BulkWritten(t)
    \/ \E t \in Slots, f \in Failures : BulkRejected(t, f)
    \/ \E t \in Slots : BackupWritten(t)

StepSpec == Init /\ [][StepNext]_vars

----------------------------------------------------------------------------
(* The server process: the configuration check of the module body, main with  *)
(* initializeDatabase and server.connect, the requests served, and the ways   *)
(* out: process.exit in main, the termination signals with cleanup, and the   *)
(* exit of a process that has nothing left to do.                             *)

MaxServed == 1

InitRetries == 5
InitDelay == 1000
SettleDelay == 1000
StaleLockAge == 30000

Event(kind, ms, outcome) == [kind |-> kind, ms |-> ms, outcome |-> outcome]

Others == <<db, backup, last, pre, clock, faulted, retry, tasks, revs>>

\* process.exit(code): the 'exit' listener (lines 151-153) calls cleanup, which
\* runs as far as its first await, the call of db.compact(), and the process
\* ends without waiting for what that call started.  The listener is
\* registered after the configuration check, so an exit from the check (via
\* "config") runs no listener.
Exit(p, code, via) ==
    [p EXCEPT !.pc = "exited", !.code = code, !.via = via,
              !.events = IF via # "config" /\ p.handle # "none"
                         THEN Append(@, Event("compactRequested", 0, "none"))
                         ELSE @]

\* the start of one pass of the loop of initializeDatabase: with a handle
\* from an earlier pass, the fixed delay and the close come first
Attempt(p) == [p EXCEPT !.pc = IF p.handle # "none" THEN "settle" ELSE "open"]

\* A configuration check that looks at the backup-file path only.
BootChecksMemoryPathOnly(memoryPath, storePath) ==
    /\ proc.pc = "start"
    /\ LET p == [proc EXCEPT !.memoryPath = memoryPath, !.storePath = storePath]
       IN  proc' = IF ~memoryPath
                   THEN Exit(p, 1, "config")
                   ELSE Attempt([p EXCEPT !.i = 0, !.delay = InitDelay])
    /\ UNCHANGED Others

\* the module body, lines 20-32, and the call of main: the process ends with
\* status 1 when MEMORY_FILE_PATH or POUCHDB_PATH is not set (or is empty)
Boot(memoryPath, storePath) ==
    /\ proc.pc = "start"
    /\ LET p == [proc EXCEPT !.memoryPath = memoryPath, !.storePath = storePath]
       IN  proc' = IF ~memoryPath \/ ~storePath
                   THEN Exit(p, 1, "config")
                   ELSE Attempt([p EXCEPT !.i = 0, !.delay = InitDelay])
    /\ UNCHANGED Others

\* lines 80-83: the fixed delay before the handle of an earlier pass is closed
Settled ==
    /\ proc.pc = "settle"
    /\ proc' = [proc EXCEPT !.pc = "close",
                            !.events = Append(@, Event("settle", SettleDelay, "none"))]
    /\ UNCHANGED Others

\* lines 84-87: db.close() of the earlier handle; a failure is logged only
ClosedEarlier(o) ==
    /\ proc.pc = "close"
    /\ proc' = [proc EXCEPT !.pc = "open",
                            !.handle = IF o = "ok" THEN "closed" ELSE @,
                            !.events = Append(@, Event("close", 0, o))]
    /\ UNCHANGED Others

\* what follows a pass that threw, lines 111-120: a wait of twice the delay
\* when a pass is left, else the error goes to main, which exits with 1
AfterFailure(p) ==
    IF p.i < InitRetries - 1
    THEN [p EXCEPT !.pc = "backoff", !.delay = @ * 2]
    ELSE Exit(p, 1, "init")

\* A lock file check that removes a LOCK file from the age of 30 seconds on.
CheckAndRemoveLockFileFromThreshold(file, stat, unlink) ==
    LET found == file.exists /\ stat = "ok"
        stale == found /\ file.age >= StaleLockAge
    IN  [checked |-> TRUE, before |-> file,
         stat |-> IF file.exists THEN stat ELSE "fail",
         unlink |-> IF stale THEN unlink ELSE "none",
         after |-> IF stale /\ unlink = "ok" THEN NoLockFile ELSE file,
         threw |-> FALSE]

\* A lock file check without the try and catch around stat and unlink.
CheckAndRemoveLockFileUncaught(file, stat, unlink) ==
    LET found == file.exists /\ stat = "ok"
        stale == found /\ file.age > StaleLockAge
    IN  [checked |-> TRUE, before |-> file,
         stat |-> IF file.exists THEN stat ELSE "fail",
         unlink |-> IF stale THEN unlink ELSE "none",
         after |-> IF stale /\ unlink = "ok" THEN NoLockFile ELSE file,
         threw |-> ~found \/ (stale /\ unlink # "ok")]

\* checkAndRemoveLockFile, lines 58-74, on the LOCK file as it is (exists,
\* age in ms = Date.now() - mtimeMs) with the outcomes of fs.stat and of
\* fs.unlink: stat rejects for a file that is not there (or cannot be looked
\* at), unlink is called for a file older than 30000 ms only, and the catch
\* swallows whatever either of them threw.
CheckAndRemoveLockFile(file, stat, unlink) ==
    LET found == file.exists /\ stat = "ok"
        stale == found /\ file.age > StaleLockAge
    IN  [checked |-> TRUE, before |-> file,
         stat |-> IF file.exists THEN stat ELSE "fail",
         unlink |-> IF stale THEN unlink ELSE "none",
         after |-> IF stale /\ unlink = "ok" THEN NoLockFile ELSE file,
         threw |-> FALSE]

\* line 105, db = new PouchDB(...): the handle of an earlier pass that is
\* still open is dropped without having been closed
Assigned(p, handle) ==
    [p EXCEPT !.handle = handle,
              !.dropped = IF p.handle = "open" THEN @ + 1 ELSE @]

\* A loop that goes on after the last pass has failed.
OpenedUnbounded(o, l) ==
    /\ proc.pc = "open"
    /\ LET c == IF o = "mkdir" THEN NoLockCheck
                ELSE CheckAndRemoveLockFile(l.file, l.stat, l.unlink)
           e == [proc EXCEPT !.events = Append(@, Event("open", 0,
                                                  IF c.threw THEN "lock" ELSE o)),
                             !.lock = c]
           p == IF o = "mkdir" \/ c.threw THEN e
                ELSE Assigned(e, IF o = "new" THEN "failed" ELSE "open")
       IN  proc' = IF o = "ok" /\ ~c.threw THEN [p EXCEPT !.pc = "connect"]
                   ELSE [p EXCEPT !.pc = "backoff", !.delay = @ * 2]
    /\ UNCHANGED Others

\* lines 90-110: mkdir, the lock file check, new PouchDB and db.info().  The
\* pass fails in mkdir, before the lock file check and before db is assigned,
\* or in info, after both: "new" is a store that could not be opened (the
\* handle is there, its store is not open), "info" a store that was opened
\* and whose info() rejected.
Opened(o, l) ==
    /\ proc.pc = "open"
    /\ LET c == IF o = "mkdir" THEN NoLockCheck
                ELSE CheckAndRemoveLockFile(l.file, l.stat, l.unlink)
           e == [proc EXCEPT !.events = Append(@, Event("open", 0,
                                                  IF c.threw THEN "lock" ELSE o)),
                             !.lock = c]
           p == IF o = "mkdir" \/ c.threw THEN e
                ELSE Assigned(e, IF o = "new" THEN "failed" ELSE "open")
       IN  proc' = IF o = "ok" /\ ~c.threw THEN [p EXCEPT !.pc = "connect"]
                   ELSE AfterFailure(p)
    /\ UNCHANGED Others

\* line 116: the timer of the wait fires and the next pass starts
BackedOff ==
    /\ proc.pc = "backoff"
    /\ proc' = Attempt([proc EXCEPT !.i = @ + 1,
                                    !.events = Append(@, Event("wait", proc.delay, "none"))])
    /\ UNCHANGED Others

\* lines 897-898: server.connect(transport); a failure goes to the catch of
\* main, which exits with 1
Connected(o) ==
    /\ proc.pc = "connect"
    /\ proc' = IF o = "ok"
               THEN [proc EXCEPT !.pc = "serving",
                                 !.events = Append(@, Event("connect", 0, o))]
               ELSE Exit([proc EXCEPT !.events = Append(@, Event("connect", 0, o))],
                         1, "connect")
    /\ UNCHANGED Others

\* a request is handled
Served ==
    /\ proc.pc = "serving"
    /\ proc.served < MaxServed
    /\ proc' = [proc EXCEPT !.served = @ + 1]
    /\ UNCHANGED Others

\* SIGINT or SIGTERM, lines 155-161: cleanup is started and awaited
Signalled(sig) ==
    /\ proc.pc = "serving"
    /\ proc' = [proc EXCEPT !.pc = "compact", !.via = sig]
    /\ UNCHANGED Others

\* cleanup, lines 130-135: db.compact(); a failure is logged only
CleanupCompacted(o) ==
    /\ proc.pc = "compact"
    /\ proc' = [proc EXCEPT !.pc = "closing",
                            !.events = Append(@, Event("compact", 0, o))]
    /\ UNCHANGED Others

\* A cleanup that ends with status 0 whatever db.close() did.
CleanupClosedAlwaysZero(o) ==
    /\ proc.pc = "closing"
    /\ proc' = Exit([proc EXCEPT !.handle = IF o = "ok" THEN "closed" ELSE @,
                                 !.events = Append(@, Event("close", 0, o))],
                    0, proc.via)
    /\ UNCHANGED Others

\* cleanup, lines 137-143, and the signal handler's then and catch: db.close(),
\* then process.exit(0), or process.exit(1) when close threw
CleanupClosed(o) ==
    /\ proc.pc = "closing"
    /\ proc' = Exit([proc EXCEPT !.handle = IF o = "ok" THEN "closed" ELSE @,
                                 !.events = Append(@, Event("close", 0, o))],
                    IF o = "ok" THEN 0 ELSE 1, proc.via)
    /\ UNCHANGED Others

\* the process has nothing left to do (its input has ended) and exits
Ended ==
    /\ proc.pc = "serving"
    /\ proc' = Exit(proc, 0, "end")
    /\ UNCHANGED Others

StepOutcomes == {"ok", "fail"}

OpenOutcomes == {"ok", "mkdir", "new", "info"}

\* the LOCK file a pass may find, at the boundary of the staleness test
LockFiles ==
    {NoLockFile} \cup {[exists |-> TRUE, age |-> a] : a \in {StaleLockAge, StaleLockAge + 1}}

\* the LOCK file with the outcomes of stat and unlink (an outcome that is not
\* looked at is "ok")
LockCases ==
    {l \in [file : LockFiles, stat : StepOutcomes, unlink : StepOutcomes] :
        /\ ~l.file.exists => l.stat = "fail"
        /\ (l.stat = "fail" \/ l.file.age <= StaleLockAge) => l.unlink = "ok"}

Signals == {"SIGINT", "SIGTERM"}

LifeNext ==
    \/ \E memoryPath, storePath \in BOOLEAN : Boot(memoryPath, storePath)
    \/ Settled
    \/ \E o \in StepOutcomes : ClosedEarlier(o)
    \/ \E o \in OpenOutcomes, l \in LockCases : Opened(o, l)
    \/ BackedOff
    \/ \E o \in StepOutcomes : Connected(o)
    \/ Served
    \/ \E sig \in Signals : Signalled(sig)
    \/ \E o \in StepOutcomes : CleanupCompacted(o)
    \/ \E o \in StepOutcomes : CleanupClosed(o)
    \/ Ended

LifeSpec == Init /\ [][LifeNext]_vars

----------------------------------------------------------------------------
(* Properties *)

Entities(store) == {d \in store : d.type = "entity"}

Relations(store) == {d \in store : d.type = "relation"}

NamesOf(docs) == {d.name : d \in docs}

Mutating == {"createEntities", "createRelations", "addObservations",
             "deleteEntities", "deleteObservations", "deleteRelations"}

StripEntity(d) ==
    [name |-> d.name, entityType |-> d.entityType, observations |-> d.observations]

\* C1: in every reachable state of the primary store, no two stored entities
\* have the same name.
C1_UniqueEntityNames ==
    \A d, e \in Entities(db) : d.name = e.name => d = e

\* C2: in every reachable state of the primary store, no two stored relations
\* have the same (from, to, relationType) triple.
C2_UniqueRelationTriples ==
    \A q, r \in Relations(db) : SameTriple(q, r) => q = r

\* C3: an addObservations call with a request naming an entity that is not
\* stored fails with the not-found error and leaves the primary store and the
\* backup file as they were, also when an earlier request of the batch named a
\* stored entity.
C3_AddObservationsNotFound ==
    (/\ last.op = "addObservations"
     /\ \E i \in DOMAIN last.args : last.args[i].entityName \notin NamesOf(Entities(pre.db)))
    => /\ ~last.ok
       /\ last.err = "notfound"
       /\ db = pre.db
       /\ backup = pre.backup

\* C3 witness: a failed batch whose first request named a stored entity and
\* carried an observation that entity does not have, while the store and a
\* written backup file hold records.
C3_Witness ==
    /\ last.op = "addObservations"
    /\ last.err = "notfound"
    /\ Len(last.args) = 2
    /\ \E e \in Entities(pre.db) :
          /\ e.name = last.args[1].entityName
          /\ \E k \in DOMAIN last.args[1].contents :
                last.args[1].contents[k] \notin ToSet(e.observations)
    /\ last.args[2].entityName \notin NamesOf(Entities(pre.db))
    /\ backup.exists
    /\ backup.lines # <<>>

Targeted(d, names) ==
    IF d.type = "entity" THEN d.name \in names
    ELSE d.from \in names \/ d.to \in names

\* C4: after a successful deleteEntities(names) the primary store holds exactly
\* the documents it held before that are neither an entity named in names nor a
\* relation whose from or to is in names, each unchanged.
C4_DeleteEntitiesCascade ==
    (last.op = "deleteEntities" /\ last.ok)
    => db = {d \in pre.db : ~Targeted(d, ToSet(last.args))}

\* C4 witness: a deleteEntities call that removed an entity and a relation
\* mentioning it and kept another entity and a relation between kept names.
C4_Witness ==
    /\ last.op = "deleteEntities"
    /\ last.ok
    /\ \E d \in Entities(pre.db) : d \notin db
    /\ \E r \in Relations(pre.db) : r \notin db
    /\ Entities(db) # {}
    /\ Relations(db) # {}

\* C5: createEntities returns, in candidate order, exactly the candidates whose
\* name was not stored before the call (none, without error, when all are
\* stored), and the stored entities afterwards are the previous ones plus
\* exactly the returned ones.
C5_CreateEntitiesDelta ==
    /\ last.op = "createEntities" => last.err \in {"none", "backup"}
    /\ (last.op = "createEntities" /\ last.ok)
       => /\ Map(last.result, StripEntity)
               = SelectSeq(last.args, LAMBDA e : e.name \notin NamesOf(Entities(pre.db)))
          /\ \A i \in DOMAIN last.result : last.result[i].type = "entity"
          /\ Entities(db) = Entities(pre.db) \cup ToSet(last.result)
          /\ Cardinality(Entities(db)) = Cardinality(Entities(pre.db)) + Len(last.result)
          /\ Relations(db) = Relations(pre.db)

\* C5 witness: a call with one stored and one new name returns the new one only.
C5_Witness ==
    /\ last.op = "createEntities"
    /\ last.ok
    /\ Len(last.args) = 2
    /\ last.args[1].name \in NamesOf(Entities(pre.db))
    /\ Len(last.result) = 1
    /\ last.result[1].name = last.args[2].name

\* C5 witness of the all-duplicates case: an empty result and no error.
C5_WitnessAllStored ==
    /\ last.op = "createEntities"
    /\ last.ok
    /\ Len(last.args) = 2
    /\ last.result = <<>>

\* C6: when createEntities is called twice in succession with the same
\* non-empty list of names not stored before the first call, the first call
\* returns a non-empty result, the second an empty one, and the number of
\* stored entities is the same after both.
C6_CreateEntitiesTwice ==
    [][(/\ last.op = "createEntities"
        /\ last.ok
        /\ last.args # <<>>
        /\ \A i \in DOMAIN last.args : last.args[i].name \notin NamesOf(Entities(pre.db))
        /\ last'.op = "createEntities"
        /\ last'.ok
        /\ last'.args = last.args)
       => /\ last.result # <<>>
          /\ last'.result = <<>>
          /\ Cardinality(Entities(db')) = Cardinality(Entities(db))]_vars

\* C6 witness: the state after a createEntities call that found every one of
\* its candidates stored by the only identifiers generated so far.
C6_Witness ==
    /\ last.op = "createEntities"
    /\ last.ok
    /\ Len(last.args) = 2
    /\ last.result = <<>>
    /\ clock.entity = 2
    /\ Cardinality(Entities(db)) = 2
    /\ {StripEntity(d) : d \in Entities(db)} = ToSet(last.args)

ClosedResult(result) ==
    \A i \in DOMAIN result.relations :
        /\ \E j \in DOMAIN result.entities : result.entities[j].name = result.relations[i].from
        /\ \E j \in DOMAIN result.entities : result.entities[j].name = result.relations[i].to

\* C7: every relation returned by searchNodes or openNodes has its from and its
\* to among the names of the entities returned by the same call.
C7_ProjectionClosure ==
    last.op \in {"searchNodes", "openNodes"} => ClosedResult(last.result)

\* C7 witness: a query over a store with a relation whose target is not
\* stored; the call returns the relation's source entity without the relation.
C7_Witness ==
    /\ last.op \in {"searchNodes", "openNodes"}
    /\ \E r \in Relations(db) :
          /\ r.to \notin NamesOf(Entities(db))
          /\ \E j \in DOMAIN last.result.entities : last.result.entities[j].name = r.from
    /\ last.result.entities # <<>>

\* C7 witness: a query that returns a relation.
C7_WitnessKept ==
    /\ last.op \in {"searchNodes", "openNodes"}
    /\ last.result.relations # <<>>
    /\ Cardinality(Relations(db)) > Len(last.result.relations)

TripleOf(r) == [from |-> r.from, to |-> r.to, relationType |-> r.relationType]

\* The stored graph as sets: entity records without identifier, relation triples.
GraphOf(store) ==
    [entities  |-> {StripEntity(d) : d \in Entities(store)},
     relations |-> {TripleOf(r) : r \in Relations(store)}]

\* The reference model: entities keyed by name, relations as a set of triples.
RECURSIVE RefCreateEntities(_, _)
RefCreateEntities(G, candidates) ==
    IF candidates = <<>> THEN G
    ELSE LET c == Head(candidates)
         IN  RefCreateEntities(
                IF c.name \in NamesOf(G.entities) THEN G
                ELSE [G EXCEPT !.entities = @ \cup {StripEntity(c)}],
                Tail(candidates))

RefDeleteObservations(G, deletions) ==
    [G EXCEPT !.entities =
        {[e EXCEPT !.observations =
            SelectSeq(@, LAMBDA o :
                ~\E i \in DOMAIN deletions :
                    /\ deletions[i].entityName = e.name
                    /\ o \in ToSet(deletions[i].observations))] : e \in @}]

RefApply(G, op, args) ==
    CASE op = "createEntities" -> RefCreateEntities(G, args)
      [] op = "createRelations" ->
            [G EXCEPT !.relations = @ \cup {TripleOf(args[i]) : i \in DOMAIN args}]
      [] op = "deleteEntities" ->
            [entities  |-> {e \in G.entities : e.name \notin ToSet(args)},
             relations |-> {r \in G.relations :
                              r.from \notin ToSet(args) /\ r.to \notin ToSet(args)}]
      [] op = "deleteObservations" -> RefDeleteObservations(G, args)
      [] op = "deleteRelations" ->
            [G EXCEPT !.relations = @ \ {TripleOf(args[i]) : i \in DOMAIN args}]

CreateOrDelete == {"createEntities", "createRelations", "deleteEntities",
                   "deleteObservations", "deleteRelations"}

WellFormed(store) ==
    /\ \A d, e \in Entities(store) : d.name = e.name => d = e
    /\ \A q, r \in Relations(store) : SameTriple(q, r) => q = r

\* C8: every successful create or delete call takes a stored graph with unique
\* keys to the graph the set-based reference operation gives for it, record for
\* record, and readGraph returns the stored graph whatever the backup file
\* holds; so readGraph after a sequence of such calls returns the net effect.
C8_RoundTrip ==
    /\ (last.op \in CreateOrDelete /\ last.ok /\ WellFormed(pre.db))
       => /\ GraphOf(db) = RefApply(GraphOf(pre.db), last.op, last.args)
          /\ Cardinality(Entities(db)) = Cardinality(GraphOf(db).entities)
          /\ Cardinality(Relations(db)) = Cardinality(GraphOf(db).relations)
    /\ last.op = "readGraph"
       => /\ ToSet(last.result.entities) = Entities(db)
          /\ ToSet(last.result.relations) = Relations(db)
          /\ Len(last.result.entities) = Cardinality(Entities(db))
          /\ Len(last.result.relations) = Cardinality(Relations(db))

C10_BackupFailureKeepsStore ==
    last.err = "backup"
    => CASE last.op = "createEntities" ->
              /\ pre.db \subseteq db
              /\ \A i \in DOMAIN last.args :
                    last.args[i].name \notin NamesOf(Entities(pre.db))
                    => \E d \in Entities(db) \ pre.db : StripEntity(d) = last.args[i]
         [] last.op = "createRelations" ->
              /\ pre.db \subseteq db
              /\ \A i \in DOMAIN last.args :
                    \E r \in Relations(db) : SameTriple(r, last.args[i])
         [] last.op = "addObservations" ->
              \A i \in DOMAIN last.args :
                  \E e \in Entities(db) :
                      /\ e.name = last.args[i].entityName
                      /\ ToSet(last.args[i].contents) \subseteq ToSet(e.observations)
         [] last.op = "deleteEntities" ->
              db = {d \in pre.db : ~Targeted(d, ToSet(last.args))}
         [] last.op = "deleteObservations" ->
              \A i \in DOMAIN last.args :
                  last.args[i].entityName \in NamesOf(Entities(pre.db))
                  => \E e \in Entities(db) :
                        /\ e.name = last.args[i].entityName
                        /\ ToSet(e.observations) \cap ToSet(last.args[i].observations) = {}
         [] last.op = "deleteRelations" ->
              /\ Entities(db) = Entities(pre.db)
              /\ \A r \in Relations(db) :
                    ~\E i \in DOMAIN last.args : SameTriple(r, last.args[i])

\* C10 witness: a call failed on the backup write, which truncated a backup
\* file that held records, and the store differs from what the call found.
C10_Witness ==
    /\ last.err = "backup"
    /\ pre.backup.lines # <<>>
    /\ backup.lines = <<>>
    /\ db # pre.db

----------------------------------------------------------------------------
(* Properties of retryOperation *)

CallsOf(events) == {k \in DOMAIN events : events[k].kind = "call"}

WaitsOf(events) == {k \in DOMAIN events : events[k].kind = "wait"}

OnlyTransient(events) ==
    \A k \in CallsOf(events) : events[k].outcome = "transient"

\* C11: against an operation that keeps failing with the transient error,
\* retryOperation invokes it at most maxRetries times, one invocation at a time
\* with a wait after each failed one, and then throws the last error; when an
\* invocation succeeds it returns and invokes nothing more; every run ends.
C11_RetryBounded ==
    /\ [](retry.pc # "idle" =>
            /\ Cardinality(CallsOf(retry.events)) <= retry.maxRetries
            /\ \A k \in CallsOf(retry.events) :
                  k < Len(retry.events) =>
                      /\ retry.events[k].outcome = "transient"
                      /\ retry.events[k + 1].kind = "wait"
            /\ \A k \in WaitsOf(retry.events) :
                  k > 1 /\ retry.events[k - 1].kind = "call"
            /\ (retry.pc = "threw" /\ OnlyTransient(retry.events)) =>
                  /\ Cardinality(CallsOf(retry.events)) = retry.maxRetries
                  /\ retry.lastError = "transient"
            /\ retry.pc = "returned" =>
                  /\ retry.events # <<>>
                  /\ retry.events[Len(retry.events)].kind = "call"
                  /\ retry.events[Len(retry.events)].outcome = "ok")
    /\ [][retry.pc \in RetryDone => retry'.events = <<>>]_vars
    /\ (retry.pc \in {"call", "wait"} ~> retry.pc \in RetryDone)

\* C11 witness: a run with the default limit has thrown the transient error
\* after five invocations.
C11_Witness ==
    /\ retry.pc = "threw"
    /\ retry.maxRetries = DefaultMaxRetries
    /\ retry.lastError = "transient"
    /\ Cardinality(CallsOf(retry.events)) = DefaultMaxRetries

\* C11 witness: a run has returned on its third invocation.
C11_WitnessReturned ==
    /\ retry.pc = "returned"
    /\ Cardinality(CallsOf(retry.events)) = 3
    /\ retry.maxRetries = DefaultMaxRetries

\* C12: an invocation that fails with an error other than the transient one is
\* the last event of the run: retryOperation throws that error with no wait
\* and no invocation after it.
C12_OtherErrorImmediate ==
    retry.pc # "idle" =>
        \A k \in CallsOf(retry.events) :
            retry.events[k].outcome = "other" =>
                /\ k = Len(retry.events)
                /\ retry.pc = "threw"
                /\ retry.lastError = "other"

\* C12 witness: the first invocation failed with another error and the run has
\* thrown after that single event, with attempts to spare.
C12_Witness ==
    /\ retry.pc = "threw"
    /\ retry.lastError = "other"
    /\ Len(retry.events) = 1
    /\ retry.maxRetries = DefaultMaxRetries

\* C12 witness: another error on the invocation that followed a wait.
C12_WitnessAfterWait ==
    /\ retry.pc = "threw"
    /\ retry.lastError = "other"
    /\ Len(retry.events) = 3

----------------------------------------------------------------------------
(* Properties of the tool calls against a failing store *)

StoreErrors == {"transient", "other"}

\* the store fails once, with the transient error, at its n-th invocation
TransientOnceAt(f, n) ==
    /\ Len(f) = n
    /\ f[n] = "transient"
    /\ \A k \in 1..(n - 1) : f[k] = "ok"

\* allDocs fails with another error, or with the transient error at each of
\* the invocations retryOperation makes
LoadFails(f) ==
    /\ f # <<>>
    /\ \/ f[1] = "other"
       \/ /\ Len(f) >= DefaultMaxRetries
          /\ \A k \in 1..DefaultMaxRetries : f[k] = "transient"

\* C13: a mutating call during which one bulk write to the store fails once
\* with the transient error, every other invocation succeeding, does not fail
\* with that error; the delete-marking writes of deleteEntities and
\* deleteRelations are such bulk writes.
C13_BulkWritesTolerateTransient ==
    (/\ last.op \in Mutating
     /\ \E n \in 2..4 : TransientOnceAt(pre.faults, n))
    => last.err \notin StoreErrors

EmptyGraph == [entities |-> <<>>, relations |-> <<>>]

\* C14: readGraph, searchNodes and openNodes never fail, and when the load
\* fails for good they return the empty graph whatever the store holds; a
\* createEntities call whose load fails for good does not fail on that account
\* and treats every candidate as new.
C14_LoadFailureGivesEmptyGraph ==
    /\ last.op \in {"readGraph", "searchNodes", "openNodes"} =>
          /\ last.ok
          /\ LoadFails(pre.faults) => last.result = EmptyGraph
    /\ (/\ last.op = "createEntities"
        /\ pre.faults \in Failures \ {<<"transient">>})
       => /\ last.ok
          /\ Map(last.result, StripEntity) = last.args

\* C14 witness: readGraph returned the empty graph from a store that holds
\* records, after the transient error at every invocation.
C14_Witness ==
    /\ last.op = "readGraph"
    /\ Len(pre.faults) = DefaultMaxRetries
    /\ LoadFails(pre.faults)
    /\ db # {}
    /\ last.result = EmptyGraph

\* C14 witness: searchNodes with the empty query, which matches every entity,
\* returned nothing after another error.
C14_WitnessSearch ==
    /\ last.op = "searchNodes"
    /\ last.args = <<>>
    /\ pre.faults = <<"other">>
    /\ Entities(db) # {}
    /\ last.result = EmptyGraph

----------------------------------------------------------------------------
(* Properties of the observation, relation and delete calls *)

Deletes == {"deleteEntities", "deleteObservations", "deleteRelations"}

\* the call ran to its end in the store: it returned, or only the backup
\* write failed
StoreDone == last.err \in {"none", "backup"}

\* C17: createRelations never rejects a candidate for its endpoints; it
\* returns, in candidate order, exactly the candidates whose triple was not
\* stored before the call, and the stored relations afterwards are the previous
\* ones plus exactly the returned ones, the entities being as before.
C17_CreateRelationsDelta ==
    /\ last.op = "createRelations" => StoreDone
    /\ (last.op = "createRelations" /\ last.ok)
       => /\ Map(last.result, TripleOf)
               = SelectSeq(last.args,
                     LAMBDA c : ~\E r \in Relations(pre.db) : SameTriple(r, c))
          /\ \A i \in DOMAIN last.result : last.result[i].type = "relation"
          /\ Relations(db) = Relations(pre.db) \cup ToSet(last.result)
          /\ Cardinality(Relations(db))
               = Cardinality(Relations(pre.db)) + Len(last.result)
          /\ Entities(db) = Entities(pre.db)

\* C17 witness: of two candidates the stored one was skipped and the other
\* was returned and stored, though neither its from nor its to is a stored
\* entity.
C17_Witness ==
    /\ last.op = "createRelations"
    /\ last.ok
    /\ Len(last.args) = 2
    /\ \E r \in Relations(pre.db) : SameTriple(r, last.args[1])
    /\ Len(last.result) = 1
    /\ last.result[1] \in db
    /\ last.result[1].from \notin NamesOf(Entities(pre.db))
    /\ last.result[1].to \notin NamesOf(Entities(pre.db))

\* C18: no delete call fails for a missing target, and a delete call repeated
\* at once with the same arguments leaves the store as the first call left it.
C18_DeletesIdempotent ==
    /\ [](last.op \in Deletes => StoreDone)
    /\ [][(/\ last.op \in Deletes
           /\ last'.op = last.op
           /\ last'.args = last.args)
          => db' = db]_vars

\* C18 witness: a deleteEntities call that names stored entities has run twice
\* in a row; the second run found none of them and returned.
C18_Witness ==
    /\ last.op = "deleteEntities"
    /\ last.ok
    /\ last.args # <<>>
    /\ ToSet(last.args) \cap NamesOf(Entities(pre.db)) = {}
    /\ clock.entity > Cardinality(Entities(pre.db))
    /\ pre.db # {}
    /\ pre.db = db

\* C18 witness: deleteObservations and deleteRelations on missing targets.
C18_WitnessMissing ==
    \/ /\ last.op = "deleteObservations"
       /\ last.ok
       /\ \E i \in DOMAIN last.args :
              last.args[i].entityName \notin NamesOf(Entities(pre.db))
       /\ Entities(db) # {}
    \/ /\ last.op = "deleteRelations"
       /\ last.ok
       /\ last.args # <<>>
       /\ \A i \in DOMAIN last.args :
              ~\E r \in Relations(pre.db) : SameTriple(r, last.args[i])
       /\ Relations(db) # {}

\* C20: after deleteRelations the stored relations are exactly the previous
\* ones whose triple is no candidate's triple, and the entities are as before.
C20_DeleteRelationsExact ==
    (last.op = "deleteRelations" /\ StoreDone)
    => /\ Relations(db) =
            {r \in Relations(pre.db) :
                ~\E i \in DOMAIN last.args : SameTriple(r, last.args[i])}
       /\ Entities(db) = Entities(pre.db)

\* C20 witness: a call removed a relation and kept another one.
C20_Witness ==
    /\ last.op = "deleteRelations"
    /\ last.ok
    /\ \E r \in Relations(pre.db) : r \notin db
    /\ Relations(db) # {}
    /\ Entities(db) # {}

\* the strings the result reports as added for the entity named n, in order
RECURSIVE AddedFor(_, _)
AddedFor(result, n) ==
    IF result = <<>> THEN <<>>
    ELSE (IF Head(result).entityName = n THEN Head(result).addedObservations ELSE <<>>)
         \o AddedFor(Tail(result), n)

AllNamed(store, requests) ==
    \A i \in DOMAIN requests : requests[i].entityName \in NamesOf(Entities(store))

\* The statement of C15 about the call whose response is pending.
AddObservationsExact ==
    (last.op = "addObservations" /\ AllNamed(pre.db, last.args))
    => /\ StoreDone
       /\ last.ok =>
            /\ Len(last.result) = Len(last.args)
            /\ \A i \in DOMAIN last.args :
                  /\ last.result[i].entityName = last.args[i].entityName
                  /\ \A d \in Entities(pre.db) :
                        d.name = last.args[i].entityName =>
                            last.result[i].addedObservations =
                                SelectSeq(last.args[i].contents,
                                    LAMBDA c : c \notin ToSet(d.observations
                                        \o AddedFor(SubSeq(last.result, 1, i - 1), d.name)))
            /\ Entities(db) =
                  {[d EXCEPT !.observations = @ \o AddedFor(last.result, d.name)] :
                      d \in Entities(pre.db)}
            /\ Relations(db) = Relations(pre.db)

\* C15: when every request of an addObservations call names a stored entity,
\* the call returns one item per request with exactly the contents strings the
\* entity did not have when the request was applied, and every stored entity's
\* observation list is afterwards its previous list followed by the strings
\* reported as added under its name.
C15_AddObservationsExact == AddObservationsExact

\* C15 on a store where no two entities share a name: the same statement.
C15_OnUniqueNames == WellFormed(pre.db) => AddObservationsExact

\* C15, the case the statement is about: a call with two requests for one
\* entity, stored once, where the first request added a string and the second
\* found it present.
C15_Reached ==
    /\ last.op = "addObservations"
    /\ last.ok
    /\ WellFormed(pre.db)
    /\ Len(last.args) = 2
    /\ last.args[1].entityName = last.args[2].entityName
    /\ last.result[1].addedObservations # <<>>
    /\ last.result[2].addedObservations = <<>>

\* the strings the requests list for the entity named n
ListedFor(deletions, n) ==
    UNION {ToSet(deletions[i].observations) :
              i \in {j \in DOMAIN deletions : deletions[j].entityName = n}}

\* The statement of C19 about the call whose response is pending.
DeleteObservationsExact ==
    (last.op = "deleteObservations" /\ StoreDone)
    => /\ Entities(db) =
            {[d EXCEPT !.observations =
                  SelectSeq(@, LAMBDA o : o \notin ListedFor(last.args, d.name))] :
                d \in Entities(pre.db)}
       /\ Cardinality(Entities(db)) = Cardinality(Entities(pre.db))
       /\ Relations(db) = Relations(pre.db)

\* C19: after deleteObservations every stored entity named by a request has
\* its previous observation list without the strings listed for its name, the
\* others in their order; entities not named and all relations are as before;
\* a request naming no stored entity changes nothing.
C19_DeleteObservationsExact == DeleteObservationsExact

\* C19 on a store where no two entities share a name: the same statement.
C19_OnUniqueNames == WellFormed(pre.db) => DeleteObservationsExact

\* C19, the case the statement is about: a call removed a string from one
\* entity, stored once, and left another entity that has the string alone.
C19_Reached ==
    /\ last.op = "deleteObservations"
    /\ last.ok
    /\ WellFormed(pre.db)
    /\ \E d \in Entities(pre.db) : d \notin db
    /\ \E d \in Entities(pre.db) : d \in db /\ d.observations # <<>>

NoRepeats(list) ==
    \A i, j \in DOMAIN list : i # j => list[i] # list[j]

\* C16: in every reachable state of the primary store no stored entity has a
\* string twice in its observation list.
C16_ObservationsDistinct ==
    \A d \in Entities(db) : NoRepeats(d.observations)

----------------------------------------------------------------------------
(* Properties of the read calls *)

\* q occurs in str as a run of consecutive characters
Substring(q, str) ==
    \E a \in 0..Len(str) :
        /\ a + Len(q) <= Len(str)
        /\ \A k \in 1..Len(q) : str[a + k] = q[k]

Matches(e, query) ==
    LET q == ToLowerCase(query)
    IN  \/ Substring(q, ToLowerCase(e.name))
        \/ Substring(q, ToLowerCase(e.entityType))
        \/ \E i \in DOMAIN e.observations : Substring(q, ToLowerCase(e.observations[i]))

\* the sequence lists each element of S once and nothing else
Lists(seq, S) == ToSet(seq) = S /\ Len(seq) = Cardinality(S)

Between(store, entities) ==
    {r \in Relations(store) : r.from \in NamesOf(entities) /\ r.to \in NamesOf(entities)}

\* C21: searchNodes(query) returns exactly the stored entities for which the
\* lower-cased query is a substring of the lower-cased name, entityType or of
\* one lower-cased observation (every entity for the empty query), and exactly
\* the stored relations whose two endpoints are both among those entities.
C21_SearchNodesExact ==
    last.op = "searchNodes" =>
        LET matched == {e \in Entities(pre.db) : Matches(e, last.args)}
        IN  /\ last.ok
            /\ Lists(last.result.entities, matched)
            /\ Lists(last.result.relations, Between(pre.db, matched))
            /\ last.args = <<>> => ToSet(last.result.entities) = Entities(pre.db)

\* C21 witness: a query in upper case matched one stored entity by an
\* observation in mixed case and not another, and a stored relation whose
\* target was not returned was left out.
C21_Witness ==
    /\ last.op = "searchNodes"
    /\ last.args = <<"Y">>
    /\ Len(last.result.entities) = 1
    /\ Cardinality(Entities(pre.db)) = 2
    /\ Relations(pre.db) # {}
    /\ last.result.relations = <<>>

\* C21 witness: a query in lower case matched two names that hold the letter
\* in upper and lower case, and the relation from one of them to a name that
\* was not returned was left out.
C21_WitnessRelation ==
    /\ last.op = "searchNodes"
    /\ last.args = <<"b">>
    /\ Len(last.result.entities) = 2
    /\ Len(last.result.relations) = 0
    /\ \E r \in Relations(pre.db) : r.from = <<"B">>

\* C21 witness: the empty query returned two entities and a relation.
C21_WitnessEmptyQuery ==
    /\ last.op = "searchNodes"
    /\ last.args = <<>>
    /\ Len(last.result.entities) = 2
    /\ Len(last.result.relations) = 1

\* C22: openNodes(names) returns exactly the stored entities whose name equals,
\* case-sensitively, an element of names, and exactly the stored relations with
\* both endpoints among them; a relation from a returned entity to a name that
\* is not stored is not returned.
C22_OpenNodesExact ==
    last.op = "openNodes" =>
        LET opened == {e \in Entities(pre.db) :
                          \E i \in DOMAIN last.args : last.args[i] = e.name}
        IN  /\ last.ok
            /\ Lists(last.result.entities, opened)
            /\ Lists(last.result.relations, Between(pre.db, opened))
            /\ \A i \in DOMAIN last.result.relations :
                  last.result.relations[i].to \in NamesOf(Entities(pre.db))

\* C22 witness: openNodes of one name on a store that holds that name, the
\* same word in the other case and a relation between the two returned the
\* one entity and no relation.
C22_Witness ==
    /\ last.op = "openNodes"
    /\ last.args = << <<"A">> >>
    /\ NamesOf(Entities(pre.db)) = {<<"A">>, <<"a">>}
    /\ \E r \in Relations(pre.db) : r.from = <<"A">> /\ r.to = <<"a">>
    /\ Len(last.result.entities) = 1
    /\ last.result.relations = <<>>

\* C22 witness: the relation of the returned entity points at a name that is
\* not stored, and is not returned.
C22_WitnessDangling ==
    /\ last.op = "openNodes"
    /\ last.args = << <<"A">> >>
    /\ NamesOf(Entities(pre.db)) = {<<"A">>}
    /\ \E r \in Relations(pre.db) : r.from = <<"A">> /\ r.to = <<"a">>
    /\ Len(last.result.entities) = 1
    /\ last.result.relations = <<>>

\* C22 witness: both names were asked for and the relation was returned.
C22_WitnessRelation ==
    /\ last.op = "openNodes"
    /\ Len(last.result.entities) = 2
    /\ Len(last.result.relations) = 1

Reads == {"readGraph", "searchNodes", "openNodes"}

\* the entities a read call of the given kind selects from a store
Selected(store, op, args) ==
    CASE op = "readGraph"   -> Entities(store)
      [] op = "searchNodes" -> {e \in Entities(store) : Matches(e, args)}
      [] op = "openNodes"   -> {e \in Entities(store) :
                                   \E i \in DOMAIN args : args[i] = e.name}

\* C23: a readGraph, searchNodes or openNodes step changes neither the primary
\* store nor the backup file, and its result is what the call selects from the
\* store as it is at that step.
C23_ReadsArePure ==
    [][last'.op \in Reads =>
          /\ db' = db
          /\ backup' = backup
          /\ Lists(last'.result.entities, Selected(db, last'.op, last'.args))
          /\ Lists(last'.result.relations,
                   IF last'.op = "readGraph" THEN Relations(db)
                   ELSE Between(db, Selected(db, last'.op, last'.args)))]_vars

\* C23 witness: readGraph returned the stored documents while the backup file,
\* truncated by a failed write, held none of them.
C23_Witness ==
    /\ last.op = "readGraph"
    /\ last.result.entities # <<>>
    /\ last.result.relations # <<>>
    /\ backup.exists
    /\ backup.lines = <<>>
    /\ db = pre.db

\* C23 witness: a searchNodes call that returned part of the store left the
\* store and a backup file with content as they were.
C23_WitnessSearch ==
    /\ last.op = "searchNodes"
    /\ Len(last.result.entities) = 1
    /\ Cardinality(db) > 1
    /\ backup.lines # <<>>
    /\ db = pre.db /\ backup = pre.backup

\* C23 witness: the same for openNodes.
C23_WitnessOpen ==
    /\ last.op = "openNodes"
    /\ Len(last.result.entities) = 1
    /\ Cardinality(db) > 1
    /\ backup.lines # <<>>
    /\ db = pre.db /\ backup = pre.backup

----------------------------------------------------------------------------
(* Properties of overlapping tool calls *)

InFlight(t) == tasks[t].pc \in {"save", "backup"}

DocsOf(graph) == ToSet(graph.entities) \cup ToSet(graph.relations)

\* C24 as stated: no tool call has loaded and not yet finished persisting
\* while another one has: the load and persist steps of two calls never
\* interleave.
C24_NoInterleaving ==
    \A t, u \in DOMAIN tasks : t # u => ~(InFlight(t) /\ InFlight(u))

\* C24 as amended: within one tool call the steps run in order: the load, the
\* change in memory, the bulk write of the whole changed graph, the backup
\* write of that graph, and only then the return; a call that throws for a
\* missing entity ends after its load.  (The steps of two calls are not
\* ordered against each other.)
C24_StepsInOrderPerCall ==
    [][\A t \in DOMAIN tasks :
          tasks'[t].pc # tasks[t].pc =>
              \/ /\ tasks[t].pc = "load" /\ tasks'[t].pc = "save"
                 /\ UNCHANGED <<db, backup>>
              \/ /\ tasks[t].pc = "load" /\ tasks'[t].pc = "done"
                 /\ tasks'[t].err = "notfound"
                 /\ UNCHANGED <<db, backup>>
              \/ /\ tasks[t].pc = "save" /\ tasks'[t].pc = "backup"
                 /\ DocsOf(tasks[t].graph) \ ToSet(tasks'[t].conflicts) \subseteq db'
                 /\ backup' = backup
              \/ /\ tasks[t].pc = "backup" /\ tasks'[t].pc = "done"
                 /\ backup'.lines = tasks[t].graph.entities \o tasks[t].graph.relations
                 /\ db' = db]_vars

\* C24 witness: two calls have returned, the second of which loaded the empty
\* store before the first, which created a document, wrote it.
C24_Witness ==
    /\ Len(tasks) >= 2
    /\ tasks[1].pc = "done" /\ tasks[2].pc = "done"
    /\ tasks[1].op = "createEntities" /\ tasks[2].op = "createRelations"
    /\ tasks[1].result # <<>> /\ tasks[2].result # <<>>
    /\ tasks[2].graph.entities = <<>>
    /\ DocsOf(tasks[1].graph) \cup DocsOf(tasks[2].graph) \subseteq db

Written(t) == tasks[t].pc \in {"backup", "done"}

\* the call t is a createEntities for the one name n and the graph it loaded
\* held no entity of that name
CreatesUnstored(t, n) ==
    /\ tasks[t].op = "createEntities"
    /\ tasks[t].pc # "load"
    /\ Len(tasks[t].args) = 1 /\ tasks[t].args[1].name = n
    /\ \A i \in DOMAIN tasks[t].graph.entities :
          tasks[t].graph.entities[i].name = n =>
              tasks[t].graph.entities[i] \in ToSet(tasks[t].result)

Race(t, u, n) == t # u /\ CreatesUnstored(t, n) /\ CreatesUnstored(u, n)

\* the two racing calls both pass the duplicate check
C25_BothPass ==
    \A t, u \in DOMAIN tasks, n \in Names :
        Race(t, u, n) => tasks[t].result # <<>> /\ tasks[u].result # <<>>

SameCandidate(d, c) ==
    IF "name" \in DOMAIN c
    THEN "name" \in DOMAIN d /\ d.name = c.name
    ELSE "from" \in DOMAIN d /\ SameTriple(d, c)

ReturnedOk(t) == tasks[t].pc = "done" /\ tasks[t].err = "none"

\* every document the call reports as created is in the store
CreatedStored(t) ==
    \A i \in DOMAIN tasks[t].result :
        \E d \in tasks[t].store : d._id = tasks[t].result[i]._id

\* a candidate the call does not report was stored in the graph it loaded
SkippedStored(t) ==
    \A i \in DOMAIN tasks[t].args :
        LET c == tasks[t].args[i]
            loaded == DocsOf(tasks[t].graph) \ ToSet(tasks[t].result)
        IN  (\A k \in DOMAIN tasks[t].result : ~SameCandidate(tasks[t].result[k], c)) =>
                \E d \in loaded : SameCandidate(d, c)

\* every string the call reports as added is in the list of a stored entity
\* of that name, and every string it does not report was in the loaded list
AddedStored(t) ==
    \A i \in DOMAIN tasks[t].result :
        LET r == tasks[t].result[i]
        IN  /\ \E e \in Entities(tasks[t].store) :
                  /\ e.name = r.entityName
                  /\ ToSet(r.addedObservations) \subseteq ToSet(e.observations)
            /\ \A k \in DOMAIN tasks[t].args[i].contents :
                  LET c == tasks[t].args[i].contents[k]
                  IN  c \notin ToSet(r.addedObservations) =>
                        \E e \in ToSet(tasks[t].graph.entities) :
                            e.name = r.entityName /\ c \in ToSet(e.observations)

\* C26: for every createEntities, createRelations and addObservations call
\* that returns successfully, overlapping calls and documents rejected by the
\* bulk write included, each item the call reports as created or added is in
\* the primary store when the call returns, and each item it does not report
\* was already there.
C26_ReportedItemsStored ==
    \A t \in DOMAIN tasks :
        ReturnedOk(t) =>
            IF tasks[t].op = "addObservations" THEN AddedStored(t)
            ELSE CreatedStored(t) /\ SkippedStored(t)

----------------------------------------------------------------------------
(* Properties of the identifiers *)

Creates == {"createEntities", "createRelations"}

\* C27: the identifiers assigned by one createEntities or createRelations call
\* are pairwise distinct within the batch and distinct from every identifier
\* of the graph the call loaded, for every outcome of the clock reading and
\* the random suffix.
C27_IdsDistinct ==
    \A t \in DOMAIN tasks :
        tasks[t].op \in Creates /\ tasks[t].pc # "load" =>
            LET new == tasks[t].result
                old == DocsOf(tasks[t].graph) \ ToSet(new)
            IN  /\ \A i, j \in DOMAIN new : i # j => new[i]._id # new[j]._id
                /\ \A i \in DOMAIN new : \A d \in old : d._id # new[i]._id

----------------------------------------------------------------------------
(* Properties of the server process *)

Kinds(events, kind) == SelectSeq(events, LAMBDA e : e.kind = kind)

C28_WitnessConfigured ==
    /\ proc.memoryPath /\ proc.storePath
    /\ proc.handle = "open"
    /\ proc.served > 0

Opens == Kinds(proc.events, "open")

Backoffs == Kinds(proc.events, "wait")

\* C29: store initialization makes at most InitRetries open attempts, with a
\* wait between two attempts that doubles each time; the server connects and
\* serves requests only after an attempt has succeeded; when every attempt has
\* failed the process exits with a non-zero status and has served no request.
C29_BoundedInitialization ==
    /\ Len(Opens) <= InitRetries
    /\ Len(Opens) <= Len(Backoffs) + 1
    /\ \A k \in DOMAIN Backoffs :
          Backoffs[k].ms = IF k = 1 THEN 2 * InitDelay ELSE 2 * Backoffs[k - 1].ms
    /\ (Kinds(proc.events, "connect") # <<>> \/ proc.served > 0
            \/ proc.pc \in {"connect", "serving"}) =>
          Opens # <<>> /\ Opens[Len(Opens)].outcome = "ok"
    /\ (Len(Opens) = InitRetries /\ \A k \in DOMAIN Opens : Opens[k].outcome # "ok") =>
          /\ proc.pc = "exited"
          /\ proc.code # 0
          /\ proc.served = 0
          /\ Kinds(proc.events, "connect") = <<>>

\* C29 witness: five attempts have failed, with waits of 2000, 4000, 8000 and
\* 16000 ms between them, and the process has exited with status 1.
C29_Witness ==
    /\ Len(Opens) = 5
    /\ \A k \in DOMAIN Opens : Opens[k].outcome # "ok"
    /\ [k \in DOMAIN Backoffs |-> Backoffs[k].ms] = <<2000, 4000, 8000, 16000>>
    /\ proc.pc = "exited"
    /\ proc.code = 1

\* C29 witness: the third attempt succeeded and a request has been served.
C29_WitnessThirdAttempt ==
    /\ Len(Opens) = 3
    /\ Opens[3].outcome = "ok"
    /\ proc.served > 0

\* the position of the last event of the kind, 0 when there is none
LastOf(events, kind) ==
    LET at == {k \in DOMAIN events : events[k].kind = kind}
    IN  IF at = {} THEN 0 ELSE CHOOSE k \in at : \A j \in at : j <= k

\* the store was opened and the process has gone through the exit named
ExitedWithStore(ways) ==
    /\ proc.pc = "exited"
    /\ proc.via \in ways
    /\ \E k \in DOMAIN Opens : Opens[k].outcome = "ok"

\* db.compact() has settled and db.close() has been attempted after it
CompactedThenClosed ==
    /\ LastOf(proc.events, "compact") > 0
    /\ LastOf(proc.events, "close") > LastOf(proc.events, "compact")

\* on a termination signal the process exits 0 when the close succeeded and
\* 1 when it failed, whatever the compaction did
SignalStatus ==
    LET closed == proc.events[LastOf(proc.events, "close")]
    IN  proc.code = IF closed.outcome = "ok" THEN 0 ELSE 1

\* C30, the part about the termination signals: it holds.
C30_OnSignals ==
    ExitedWithStore(Signals) => CompactedThenClosed /\ SignalStatus

\* C30: on normal exit and on SIGINT/SIGTERM an opened store is compacted and
\* then closed before the process terminates; a compaction failure does not
\* prevent the close, and on a termination signal the process exits 0 when the
\* close succeeded and 1 when it failed.
C30_CleanupBeforeExit ==
    /\ ExitedWithStore(Signals \cup {"end"}) => CompactedThenClosed
    /\ ExitedWithStore(Signals) => SignalStatus

\* C30, the case of the signals: the compaction failed, the close succeeded
\* and the process has exited with status 0.
C30_ReachedOnSignal ==
    /\ ExitedWithStore(Signals)
    /\ proc.events[LastOf(proc.events, "compact")].outcome = "fail"
    /\ proc.code = 0

----------------------------------------------------------------------------
(* Properties of the lock file check and of the handles of initialization *)

\* the last pass of initializeDatabase came to new PouchDB
CameToOpen ==
    Opens # <<>> /\ Opens[Len(Opens)].outcome \in {"ok", "new", "info"}

\* C31: before each attempt to open the store the LOCK file is looked at;
\* unlink is called if and only if stat found the file and its age exceeds
\* 30 seconds, the file is gone after the check exactly when that unlink
\* succeeded, a file aged 30 seconds or less is left as it is, and no failure
\* of stat or unlink keeps the pass from going on to open the store.
C31_StaleLockRemoval ==
    LET c == proc.lock
        stale == c.before.exists /\ c.stat = "ok" /\ c.before.age > StaleLockAge
    IN  /\ CameToOpen <=> c.checked
        /\ c.checked =>
              /\ (c.unlink # "none") <=> stale
              /\ (c.before.exists /\ ~c.after.exists) <=> (stale /\ c.unlink = "ok")
              /\ ~(stale /\ c.unlink = "ok") => c.after = c.before
              /\ (c.before.exists /\ c.before.age <= StaleLockAge) => c.after = c.before
              /\ ~c.threw

\* C31 witness: a LOCK file older than 30 seconds was removed and the store
\* was opened in the same pass.
C31_Witness ==
    /\ proc.lock.checked
    /\ proc.lock.before.exists /\ proc.lock.before.age > StaleLockAge
    /\ ~proc.lock.after.exists
    /\ Opens[Len(Opens)].outcome = "ok"

\* C31 witness: a LOCK file of exactly 30 seconds was left in place.
C31_WitnessFresh ==
    /\ proc.lock.checked
    /\ proc.lock.stat = "ok"
    /\ proc.lock.before.age = StaleLockAge
    /\ proc.lock.after.exists

\* C31 witness: the unlink of a stale LOCK file failed, the file is still
\* there and the pass went on and opened the store.
C31_WitnessUnlinkFailed ==
    /\ proc.lock.checked
    /\ proc.lock.unlink = "fail"
    /\ proc.lock.after.exists
    /\ proc.pc = "connect"

\* the store handles that were opened and have not been closed: the one db
\* refers to and those it referred to before
OpenHandles == proc.dropped + (IF proc.handle = "open" THEN 1 ELSE 0)

\* the passes of initializeDatabase that assigned db
Assigning(k) ==
    proc.events[k].kind = "open" /\ proc.events[k].outcome \in {"ok", "new", "info"}

\* the close of an earlier handle comes right after the fixed delay, and a
\* pass that finds a handle goes to mkdir and new PouchDB right after that
\* close has been attempted
SettleCloseOpen ==
    LET events == proc.events
        connected == LastOf(events, "connect")
        init == {k \in DOMAIN events : connected = 0 \/ k < connected}
    IN  /\ \A k \in init : events[k].kind = "close" =>
              /\ k > 1
              /\ events[k - 1] = Event("settle", SettleDelay, "none")
        /\ \A k \in init : events[k].kind = "settle" =>
              \/ k = Len(events) /\ proc.pc = "close"
              \/ k < Len(events) /\ events[k + 1].kind = "close"
        /\ \A k \in init :
              (events[k].kind = "open" /\ \E j \in 1..(k - 1) : Assigning(j)) =>
                  /\ k > 2
                  /\ events[k - 1].kind = "close"

\* C34, the order of the steps: it holds.
C34_SettleThenCloseThenOpen == SettleCloseOpen

\* C34: during (re)initialization an existing store handle is closed only
\* after the fixed delay of 1000 ms, and a new handle is opened only after that
\* close has been attempted, so that at most one open store handle exists at
\* any time.
C34_OneOpenHandle ==
    /\ SettleCloseOpen
    /\ OpenHandles <= 1

\* C34, the case the order of the steps is about: a pass found the handle of
\* an earlier pass, closed it after the delay and opened the store again.
C34_ReachedReopen ==
    /\ Len(Opens) = 2
    /\ Assigning(LastOf(proc.events, "open"))
    /\ Kinds(proc.events, "close") = <<Event("close", 0, "ok")>>
    /\ OpenHandles = 1

----------------------------------------------------------------------------
(* Properties of the waits of retryOperation *)

\* the waits of the run, in order
Waits == Kinds(retry.events, "wait")

\* the delay before jitter of wait number n, counted from 0, as the doubling
\* from the initial delay with the cap gives it
Doubled(n) == Min(DefaultInitialDelay * 2^n, MaxDelay)

\* the greatest wait: the cap times the supremum 1.25 of the jitter factor
MaxWait == (MaxDelay * 125) \div 100

\* what the code computes: the first wait is the initial delay, each further
\* wait is the doubled and capped previous WAIT times a jitter factor of
\* [0.75, 1.25) (rounded down to whole ms here), and no wait exceeds 12500 ms
WaitsAsComputed ==
    \A n \in DOMAIN Waits :
        /\ Waits[n].ms <= MaxWait
        /\ n = 1 => Waits[n].ms = DefaultInitialDelay
        /\ n > 1 =>
              LET base == Min(Waits[n - 1].ms * 2, MaxDelay)
              IN  /\ 100 * (Waits[n].ms + 1) > 75 * base
                  /\ 100 * Waits[n].ms < 125 * base

\* C32, what holds of the waits: the bound of 12500 ms and the first wait.
C32_WaitsBounded == retry.pc # "idle" => WaitsAsComputed

\* C32: the delay before jitter starts at the initial delay, is doubled for
\* each further retry and capped at 10000 ms, so that wait number n is
\* min(initialDelay * 2^n, 10000) times a jitter factor of [0.75, 1.25) and no
\* wait exceeds 12500 ms.
C32_BackoffDelays ==
    retry.pc # "idle" =>
        \A n \in DOMAIN Waits :
            /\ Waits[n].ms <= MaxWait
            /\ 100 * (Waits[n].ms + 1) > 75 * Doubled(n - 1)
            /\ 100 * Waits[n].ms < 125 * Doubled(n - 1)

\* C32, a run with waits at the cap: five waits, the last of them above
\* 10000 ms.
C32_ReachedCap ==
    /\ Len(Waits) = DefaultMaxRetries
    /\ Waits[Len(Waits)].ms > MaxDelay

\* the invocations of the run that failed with the transient error
TransientCalls ==
    {k \in CallsOf(retry.events) : retry.events[k].outcome = "transient"}

\* C37: retryOperation waits after every transient failure, the failure of
\* the last permitted invocation included: a run whose maxRetries invocations
\* all failed with the transient error has waited maxRetries times when it
\* throws, and its last event is a wait, with no invocation after it.
C37_WaitsAfterLastAttempt ==
    retry.pc # "idle" =>
        /\ retry.pc # "wait" =>
              Len(Waits) = Cardinality(TransientCalls)
        /\ retry.pc = "wait" =>
              Len(Waits) + 1 = Cardinality(TransientCalls)
        /\ (retry.pc = "threw" /\ retry.maxRetries > 0
                /\ OnlyTransient(retry.events)) =>
              /\ Len(Waits) = retry.maxRetries
              /\ retry.events[Len(retry.events)].kind = "wait"

\* C37 witness: with the default limit five invocations have failed with the
\* transient error and the run has thrown right after its fifth wait.
C37_Witness ==
    /\ retry.pc = "threw"
    /\ retry.maxRetries = DefaultMaxRetries
    /\ OnlyTransient(retry.events)
    /\ Len(Waits) = DefaultMaxRetries
    /\ retry.events[Len(retry.events)].kind = "wait"

----------------------------------------------------------------------------
(* Properties of what the creating and adding calls leave alone *)

\* list is the start of longer
Prefix(list, longer) ==
    Len(list) <= Len(longer) /\ SubSeq(longer, 1, Len(list)) = list

\* the names the requests of an addObservations call carry
Named(requests) == {requests[i].entityName : i \in DOMAIN requests}

\* every entity stored before is stored after under its _id with its name and
\* entityType, its observation list grown at the end at most, and as it was
\* when the call does not name it; no entity has come or gone
OnlyAppended(before, after, names) ==
    /\ {d._id : d \in Entities(before)} = {d._id : d \in Entities(after)}
    /\ Cardinality(Entities(before)) = Cardinality(Entities(after))
    /\ \A d \in Entities(before) :
          \E e \in Entities(after) :
              /\ e._id = d._id
              /\ e.name = d.name
              /\ e.entityType = d.entityType
              /\ e.type = d.type
              /\ Prefix(d.observations, e.observations)
              /\ d.name \notin names => e = d

\* C35: createEntities changes no stored relation and no entity stored before
\* it; createRelations changes no stored entity and no relation stored before
\* it; addObservations changes no relation and no entity it does not name, and
\* only appends to the observation list of an entity it names, leaving name
\* and entityType as they were.
C35_CreateAndAddFrame ==
    /\ last.op = "createEntities" =>
          /\ Relations(db) = Relations(pre.db)
          /\ Entities(pre.db) \subseteq Entities(db)
    /\ last.op = "createRelations" =>
          /\ Entities(db) = Entities(pre.db)
          /\ Relations(pre.db) \subseteq Relations(db)
    /\ last.op = "addObservations" =>
          /\ Relations(db) = Relations(pre.db)
          /\ OnlyAppended(pre.db, db, Named(last.args))

\* C35 witness: an addObservations call appended to the entity it names
\* while an entity it does not name and a relation were stored.
C35_Witness ==
    /\ last.op = "addObservations"
    /\ last.ok
    /\ Relations(pre.db) # {}
    /\ \E d \in Entities(pre.db) : d.name \notin Named(last.args)
    /\ \E d \in Entities(pre.db), e \in Entities(db) :
          /\ e._id = d._id
          /\ Len(e.observations) > Len(d.observations)

\* C35 witness: an addObservations call appended a string to a list that
\* held one already.
C35_WitnessLonger ==
    /\ last.op = "addObservations"
    /\ last.ok
    /\ \E d \in Entities(pre.db), e \in Entities(db) :
          /\ e._id = d._id
          /\ d.observations # <<>>
          /\ Len(e.observations) > Len(d.observations)

\* C35 witness: createEntities stored a new entity next to a stored entity
\* and a stored relation.
C35_WitnessCreateEntities ==
    /\ last.op = "createEntities"
    /\ last.ok /\ last.result # <<>>
    /\ Entities(pre.db) # {}
    /\ Relations(pre.db) # {}

\* C35 witness: createRelations stored a new relation next to a stored
\* relation and a stored entity.
C35_WitnessCreateRelations ==
    /\ last.op = "createRelations"
    /\ last.ok /\ last.result # <<>>
    /\ Entities(pre.db) # {}
    /\ Relations(pre.db) # {}

----------------------------------------------------------------------------
(* Properties of the order of the store writes and the backup write *)

\* C33: in a mutating call the backup file is overwritten only after every
\* store write of the call has completed: a call in which a store write failed
\* (a delete-marking write or the bulk write of saveGraph) leaves the file with
\* its previous content, and a call that overwrote the file has all its store
\* writes behind it, the store holding every record the file lists.
C33_StoreWritesBeforeBackup ==
    last.op \in Mutating =>
        /\ last.err \in StoreErrors => backup = pre.backup
        /\ backup # pre.backup =>
              /\ last.ok
              /\ ToSet(backup.lines) \subseteq db
        /\ last.ok =>
              /\ backup.exists
              /\ ToSet(backup.lines) \subseteq db

\* C33 witness: the bulk write of a deleteEntities call failed after both
\* delete-marking writes had removed documents, and the backup file still
\* lists the removed documents.
C33_Witness ==
    /\ last.op = "deleteEntities"
    /\ last.err \in StoreErrors
    /\ \E d \in Entities(pre.db) : d \notin db
    /\ \E r \in Relations(pre.db) : r \notin db
    /\ backup = pre.backup
    /\ backup.exists
    /\ \E k \in DOMAIN backup.lines : backup.lines[k] \notin db

\* C33 witness: a call whose store writes all completed has overwritten a
\* backup file that listed other records.
C33_WitnessOverwritten ==
    /\ last.op \in Mutating
    /\ last.ok
    /\ pre.backup.exists
    /\ backup # pre.backup
    /\ backup.lines # <<>>

\* C36: a mutating call whose load fails for good, and so works on the empty
\* graph, removes and alters no document of the primary store: every record
\* stored before the call is stored after it with the same fields.
C36_FailedLoadKeepsStore ==
    (last.op \in Mutating /\ LoadFails(pre.faults)) => pre.db \subseteq db

\* C36 witness: a deleteEntities call whose load failed named a stored entity
\* with a stored relation, returned, and both are still stored.
C36_Witness ==
    /\ last.op = "deleteEntities"
    /\ LoadFails(pre.faults)
    /\ last.ok
    /\ \E d \in Entities(db) : d.name \in ToSet(last.args)
    /\ \E r \in Relations(db) : Mentions(r, last.args)

\* C36 witness: a createEntities call whose load failed stored its candidate
\* next to the records of the store.
C36_WitnessCreate ==
    /\ last.op = "createEntities"
    /\ LoadFails(pre.faults)
    /\ last.ok /\ last.result # <<>>
    /\ pre.db # {}
    /\ pre.db \subseteq db
    /\ db # pre.db

----------------------------------------------------------------------------
(* Properties of the steps of deleteEntities *)

\* the call that arrived last is a deleteEntities call that has loaded
Deleting ==
    /\ tasks # <<>>
    /\ tasks[Len(tasks)].op = "deleteEntities"
    /\ tasks[Len(tasks)].pc # "load"

\* the names the call targets
TargetNames == ToSet(tasks[Len(tasks)].args)

\* a relation the call found that mentions a targeted name is gone
RelationRemoved ==
    \E r \in Relations(pre.db) : Mentions(r, tasks[Len(tasks)].args) /\ r \notin db

\* C38: in every state during or after a deleteEntities call, also when a
\* store write of the call failed, a relation mentioning a targeted name is
\* gone from the primary store only if no entity with a targeted name is
\* stored any more: the entity documents are delete-marked before the
\* relation documents.
C38_EntitiesBeforeRelations ==
    (Deleting /\ RelationRemoved) =>
        \A e \in Entities(db) : e.name \notin TargetNames

\* C38 witness: the write that marks the relations failed after the entities
\* with a targeted name had been removed; the relation mentioning the name is
\* still stored.
C38_Witness ==
    /\ Deleting
    /\ tasks[Len(tasks)].pc = "done"
    /\ tasks[Len(tasks)].err \in StoreErrors
    /\ \E e \in Entities(pre.db) : e.name \in TargetNames /\ e \notin db
    /\ \E r \in Relations(db) : Mentions(r, tasks[Len(tasks)].args)
    /\ ~RelationRemoved

\* C38 witness: a call has returned with the targeted entity and the relation
\* mentioning it removed and another entity kept.
C38_WitnessRemoved ==
    /\ Deleting
    /\ tasks[Len(tasks)].pc = "done"
    /\ tasks[Len(tasks)].err = "none"
    /\ RelationRemoved
    /\ Entities(db) # {}

============================================================================
